---- MODULE Spec2Model ----
(***************************************************************************)
(* Model of the migration engine's reconciliation logic:                   *)
(*   - diagnose_migrations_history / next_applied_migration (pure),        *)
(*   - catch_up, the orchestrator that brings the dev database on track,   *)
(*   - the connector operations it drives (persist, apply, revert_to,      *)
(*     detect_drift).                                                      *)
(* Indices are 0-based as in the Rust source; TLA+ sequences are 1-based,  *)
(* so the element at Rust index i is s[i + 1].                             *)
(***************************************************************************)
EXTENDS Integers, Sequences, FiniteSets, TLC

VARIABLES
    folder,      \* the migrations folder on disk: sequence of MigrationFolder, sorted by id
    table,       \* rows of the applied-migrations table, in insertion order
    live,        \* the live (dev) database
    pc,          \* position of the running command
    force,       \* the command's force flag
    diagnostic,  \* the HistoryDiagnostic computed by catch_up
    cursor,      \* loop position inside the current branch
    work,        \* what the current branch still has to replay and to apply
    drift,       \* the drift migration returned by detect_drift
    tempdbs,     \* temporary databases created and not dropped
    result,      \* what the command returned
    log,         \* operations issued against the live database and the table, in order
    table0,      \* the table as it was when the command started
    live0,       \* the live database as it was when the command started
    input,       \* the SchemaPushInput of a schema_push command
    database_migration, \* what the inferrer returned for the pushed schema
    checks,      \* the DestructiveChangeDiagnostics of that migration
    output,      \* the SchemaPushOutput returned
    clock,       \* the wall clock (chrono::Utc::now)
    dir,         \* the entries of the migrations directory, as created
    inserted     \* the rows of the table in the order of their INSERTs

vars == <<folder, table, live, pc, force, diagnostic, cursor, work, drift, tempdbs,
          result, log, table0, live0,
          input, database_migration, checks, output, clock, dir, inserted>>

\* what catch_up and the connector operations it drives never write
outside_catch_up == <<input, database_migration, checks, output, clock, dir, inserted>>

----------------------------------------------------------------------------
(* Bounds of the model. *)

\* longest migrations folder drawn for the pure diagnostic
DiagMaxFolder == 3
\* longest applied-migrations table drawn for the pure diagnostic
DiagMaxApplied == 4
\* longest migrations folder a command starts from
MaxFolder == 2
\* longest applied-migrations table a command starts from
MaxApplied == 3
\* most steps of a drift migration
MaxDriftSteps == 2

\* the script texts that occur
Scripts == {"s1", "s2"}
\* the names the rows of the table carry: the ids of the first two folders
RowNames == {1, 2}

\* Option<T> as a sequence of length at most one
None == <<>>
Some(x) == <<x>>

Null == "null"
Now == "ts"

----------------------------------------------------------------------------
(* Data model. *)

\* SHA-512 of a script: a digest that differs from the text it hashes and is
\* collision-free on the scripts of the model.
Sha512(script) == <<"sha512", script>>

\* MigrationFolder::migration_id: the folder's name.
migration_id(f) == f.id

\* MigrationFolder::read_migration_script: contents of migration.sql.
read_migration_script(f) == f.script

\* MigrationFolder::checksum: SHA-512 of the script read from the folder.
checksum(f) == Sha512(read_migration_script(f))

\* ImperativeMigration::is_applied: a row counts as applied iff it was not rolled back.
is_applied(m) == m.rolled_back_at = Null

\* A row as persist_imperative_migration_to_table inserts it: only script,
\* checksum and name are given, the timestamps finishedAt and rolledBackAt stay NULL.
NewRow(name, cks, script) ==
    [name |-> name, script |-> script, checksum |-> cks,
     finished_at |-> Null, rolled_back_at |-> Null]

----------------------------------------------------------------------------
(* The history diagnostic (pure). *)

UpToDate == [kind |-> "UpToDate", start |-> 0, items |-> <<>>]
DatabaseIsBehind(start, unapplied_migrations) ==
    [kind |-> "DatabaseIsBehind", start |-> start, items |-> unapplied_migrations]
FilesystemIsBehind(start, unpersisted_migrations) ==
    [kind |-> "FilesystemIsBehind", start |-> start, items |-> unpersisted_migrations]
HistoriesDiverge(last_applied_filesystem_migration) ==
    [kind |-> "HistoriesDiverge", start |-> last_applied_filesystem_migration, items |-> <<>>]

\* s[from..] of Rust: the elements at 0-based indices from, from+1, ...
SliceFrom(s, from) == SubSeq(s, from + 1, Len(s))
\* s[..to] of Rust: the elements at 0-based indices 0 .. to-1
SliceTo(s, to) == SubSeq(s, 1, to)

\* next_applied_migration without the is_applied test
next_applied_migration_unfiltered(applied, pos) ==
    IF pos >= Len(applied)
    THEN [row |-> None, pos |-> Len(applied)]
    ELSE [row |-> Some(applied[pos + 1]), pos |-> pos + 1]

\* next_applied_migration: advances the enumerate() iterator (pos = rows already
\* consumed) to the next row that is_applied; exhausts the iterator otherwise.
RECURSIVE next_applied_migration(_, _)
next_applied_migration(applied, pos) ==
    IF pos >= Len(applied)
    THEN [row |-> None, pos |-> Len(applied)]
    ELSE IF is_applied(applied[pos + 1])
         THEN [row |-> Some(applied[pos + 1]), pos |-> pos + 1]
         ELSE next_applied_migration(applied, pos + 1)

\* after_loop with the bound test off by one
after_loop_inclusive(applied, pos) ==
    IF pos <= Len(applied)
    THEN FilesystemIsBehind(pos, SliceFrom(applied, pos))
    ELSE UpToDate

\* What follows the while loop: the plain iterator's next(), then the verdict.
after_loop(applied, pos) ==
    IF pos < Len(applied)
    THEN FilesystemIsBehind(pos, SliceFrom(applied, pos))
    ELSE UpToDate

\* on_mismatch that forgets the entries matched so far
on_mismatch_forgetful(applied, last) == FilesystemIsBehind(0, applied)

\* on_mismatch that leaves the rolled-back rows out of the unpersisted list
on_mismatch_applied_only(applied, last) ==
    IF last # None
    THEN HistoriesDiverge(last[1])
    ELSE FilesystemIsBehind(0, SelectSeq(applied, is_applied))

\* The arm `Some(_applied_migration)` of the match: a checksum mismatch.
on_mismatch(applied, last) ==
    IF last # None
    THEN HistoriesDiverge(last[1])
    ELSE FilesystemIsBehind(0, applied)

\* on_exhausted that slices after the current folder entry
on_exhausted_skipping(fs, fs_idx) == DatabaseIsBehind(fs_idx + 1, SliceFrom(fs, fs_idx + 1))

\* The arm `None` of the match: no applied row is left for this folder entry.
on_exhausted(fs, fs_idx) == DatabaseIsBehind(fs_idx, SliceFrom(fs, fs_idx))

\* The while loop of diagnose_migrations_history, at folder index fs_idx with
\* pos applied rows consumed and last = last_applied_filesystem_migration.
RECURSIVE diagnose_loop(_, _, _, _, _)
diagnose_loop(fs, applied, fs_idx, pos, last) ==
    IF fs_idx >= Len(fs)
    THEN after_loop(applied, pos)
    ELSE LET checksum_buf == checksum(fs[fs_idx + 1])
             nxt == next_applied_migration(applied, pos)
         IN  IF nxt.row # None /\ nxt.row[1].checksum = checksum_buf
             THEN diagnose_loop(fs, applied, fs_idx + 1, nxt.pos, Some(fs_idx))
             ELSE IF nxt.row # None
                  THEN on_mismatch(applied, last)
                  ELSE on_exhausted(fs, fs_idx)

diagnose_migrations_history(filesystem_migrations_slice, applied_migrations_slice) ==
    diagnose_loop(filesystem_migrations_slice, applied_migrations_slice, 0, 0, None)

----------------------------------------------------------------------------
(* The live database and the connector's operations on it. *)

\* A database right after drop_database: no schema objects, no migrations table.
EmptyDatabase == [ran |-> <<>>, extra |-> FALSE, altered |-> 0]

\* What a branch of catch_up has in hand: the scripts revert_to replays, the rows
\* handed to revert_to as to be rolled back, the folder migrations to apply.
NoWork == [replay |-> <<>>, to_be_rolled_back |-> <<>>, unapplied |-> <<>>]

\* The schema a database has after running the scripts to completion, in order.
Replayed(scripts) ==
    [ran |-> [i \in 1..Len(scripts) |-> [script |-> scripts[i], complete |-> TRUE]],
     extra |-> FALSE, altered |-> 0]

\* fs_migration_scripts of catch_up: the script of every folder, in folder order.
ScriptsOf(fs) == [i \in 1..Len(fs) |-> read_migration_script(fs[i])]

\* raw_cmd(script) on the database db: the script ran to completion (ok), or it
\* failed part-way and left whatever its first statements did.
raw_cmd(db, script, ok) ==
    [db EXCEPT !.ran = Append(@, [script |-> script, complete |-> ok])]

\* flavour.drop_database(conn, schema_name): drops the schema, and with it the
\* applied-migrations table, which lives in that schema.
flavour_drop_database == [live |-> EmptyDatabase, table |-> <<>>]

\* apply_step(migration, step) has a step to apply at that index.
has_step(migration, step) == step < migration.steps

\* The temporary databases left once a TemporaryDatabase goes out of scope: its
\* _temp_dir, when it has one, is removed with it; a database or schema created
\* on a server stays until drop_temporary_database is called.
out_of_scope(n, temp_dir) == IF temp_dir THEN n - 1 ELSE n

\* detect_drift's diff of the live schema against the shadow database, which is
\* the folder's scripts replayed into a fresh temporary database.
Drifted(db, fs_migration_scripts) == db # Replayed(fs_migration_scripts)

----------------------------------------------------------------------------
(* Input domains. *)

SeqsUpTo(S, n) == UNION {[1..k -> S] : k \in 0..n}

\* list_migrations sorts by migration id; the folders of the model are named
\* 1, 2, ... in that order.
Folders(n) ==
    {[i \in 1..Len(ss) |-> [id |-> i, script |-> ss[i]]] : ss \in SeqsUpTo(Scripts, n)}

\* Rows as the program writes them: checksum is the digest of the script,
\* finishedAt is never set, rolledBackAt is set by smart_revert_to.
Rows(names) ==
    {[name |-> n, script |-> s, checksum |-> Sha512(s),
      finished_at |-> Null, rolled_back_at |-> rb] :
        n \in names, s \in Scripts, rb \in {Null, Now}}

\* the rows that are not rolled back, in table order
AppliedOnly(applied) == SelectSeq(applied, is_applied)

----------------------------------------------------------------------------
(* catch_up: the branch taken once the history is diagnosed, up to the     *)
(* next database operation.                                                *)

MsgDrift == "Detected drift between dev database and migrations history."
MsgFolderBehind == "The migrations folder is behind the database."
MsgLastEdited == "The last migration was edited."
MsgDiverge(id) == <<"The history of the migrations diverge, after", id>>

\* Ok((radical_measure, proceed))
Returned(radical_measure, proceed) ==
    Some([radical_measure |-> radical_measure, proceed |-> proceed])

Goto(p, w) == [pc |-> p, result |-> None, work |-> w]
Return(radical_measure, proceed) ==
    [pc |-> "done", result |-> Returned(radical_measure, proceed), work |-> NoWork]

\* HistoryDiagnostic::UpToDate => connector.detect_drift(..)
branch_up_to_date == Goto("detect_drift", NoWork)

\* HistoryDiagnostic::DatabaseIsBehind { unapplied_migrations } => for .. in unapplied_migrations
branch_database_is_behind(unapplied_migrations) ==
    Goto("persist", [replay |-> <<>>, to_be_rolled_back |-> <<>>,
                     unapplied |-> unapplied_migrations])

\* branch_filesystem_is_behind without the test of the force flag
branch_filesystem_is_behind_unchecked(frc, fs, unpersisted_migrations) ==
    Goto("drop_database", [replay |-> ScriptsOf(fs),
                           to_be_rolled_back |-> unpersisted_migrations,
                           unapplied |-> <<>>])

\* branch_filesystem_is_behind that declines without naming a radical measure
branch_filesystem_is_behind_silent(frc, fs, unpersisted_migrations) ==
    IF frc
    THEN Goto("drop_database", [replay |-> ScriptsOf(fs),
                                to_be_rolled_back |-> unpersisted_migrations,
                                unapplied |-> <<>>])
    ELSE Return(None, FALSE)

\* HistoryDiagnostic::FilesystemIsBehind { .. }
branch_filesystem_is_behind(frc, fs, unpersisted_migrations) ==
    IF frc
    THEN Goto("drop_database", [replay |-> ScriptsOf(fs),
                                to_be_rolled_back |-> unpersisted_migrations,
                                unapplied |-> <<>>])
    ELSE Return(Some(MsgFolderBehind), FALSE)

\* The test for "the last migration was edited".  HistoriesDiverge implies at
\* least two folders and two applied rows, so the usize subtractions do not wrap.
last_migration_was_edited(fs, applied, last) ==
    /\ last = Len(applied) - 2
    /\ last = Len(fs) - 2
    /\ applied[last + 2].name = migration_id(fs[last + 2])

\* branch_histories_diverge with the test of the force flag inverted
branch_histories_diverge_inverted(frc, fs, applied, last) ==
    IF frc
    THEN IF last_migration_was_edited(fs, applied, last)
         THEN Return(Some(MsgLastEdited), FALSE)
         ELSE Return(Some(MsgDiverge(migration_id(fs[last + 1]))), FALSE)
    ELSE Goto("drop_database",
              [replay |-> ScriptsOf(SliceTo(fs, last)),
               to_be_rolled_back |-> SliceFrom(applied, last),
               unapplied |-> SliceFrom(fs, last)])

\* branch_histories_diverge that hands revert_to every script of the folder
branch_histories_diverge_replaying_all(frc, fs, applied, last) ==
    IF ~frc
    THEN IF last_migration_was_edited(fs, applied, last)
         THEN Return(Some(MsgLastEdited), FALSE)
         ELSE Return(Some(MsgDiverge(migration_id(fs[last + 1]))), FALSE)
    ELSE Goto("drop_database",
              [replay |-> ScriptsOf(fs),
               to_be_rolled_back |-> SliceFrom(applied, last),
               unapplied |-> SliceFrom(fs, last)])

\* HistoryDiagnostic::HistoriesDiverge { last_applied_filesystem_migration }
branch_histories_diverge(frc, fs, applied, last) ==
    IF ~frc
    THEN IF last_migration_was_edited(fs, applied, last)
         THEN Return(Some(MsgLastEdited), FALSE)
         ELSE Return(Some(MsgDiverge(migration_id(fs[last + 1]))), FALSE)
    ELSE Goto("drop_database",
              [replay |-> ScriptsOf(SliceTo(fs, last)),
               to_be_rolled_back |-> SliceFrom(applied, last),
               unapplied |-> SliceFrom(fs, last)])

\* match diagnostic { .. }
Dispatch(d, frc, fs, applied) ==
    CASE d.kind = "UpToDate" -> branch_up_to_date
      [] d.kind = "DatabaseIsBehind" -> branch_database_is_behind(d.items)
      [] d.kind = "FilesystemIsBehind" -> branch_filesystem_is_behind(frc, fs, d.items)
      [] d.kind = "HistoriesDiverge" -> branch_histories_diverge(frc, fs, applied, d.start)

\* an INSERT that is skipped when a row with that checksum exists already
persist_if_absent(tbl, name, cks, script) ==
    IF \E i \in 1..Len(tbl) : tbl[i].checksum = cks
    THEN tbl
    ELSE Append(tbl, NewRow(name, cks, script))

\* The INSERT of persist_imperative_migration_to_table.
persist_imperative_migration_to_table(tbl, name, cks, script) ==
    Append(tbl, NewRow(name, cks, script))

\* What revert_to does once its scripts are replayed, and what catch_up does next.
after_replay(d) ==
    IF d.kind = "FilesystemIsBehind" THEN "initialize" ELSE "persist"

----------------------------------------------------------------------------
(* The command as a state machine: one action per database operation,      *)
(* each followed by the code that runs up to the next one.  Every database *)
(* operation can fail, which ends the command with an error.               *)

ScriptsOfRows(rows) == [i \in 1..Len(rows) |-> rows[i].script]

\* The state before a command: a folder, a table written by earlier commands,
\* and a live database holding what the rows not rolled back have run, with
\* or without changes made behind the engine's back.
Init ==
    /\ folder \in Folders(MaxFolder)
    /\ table \in SeqsUpTo(Rows(RowNames), MaxApplied)
    /\ \E e \in BOOLEAN :
          live = [Replayed(ScriptsOfRows(AppliedOnly(table))) EXCEPT !.extra = e]
    /\ force \in BOOLEAN
    /\ pc = "catch_up"
    /\ diagnostic = None
    /\ cursor = 0
    /\ work = NoWork
    /\ drift = None
    /\ tempdbs = 0
    /\ result = None
    /\ log = <<>>
    /\ table0 = table
    /\ live0 = live
    /\ input = None
    /\ database_migration = None
    /\ checks = None
    /\ output = None
    /\ clock = 0
    /\ dir = {}
    /\ inserted = <<>>

Fail ==
    /\ pc' = "failed"
    /\ UNCHANGED <<folder, table, live, force, cursor, work, drift, result, log,
                   table0, live0>>

\* list_migrations, read_imperative_migrations, diagnose_migrations_history, match.
ReadImperativeMigrations ==
    /\ pc = "catch_up"
    /\ UNCHANGED outside_catch_up
    /\ \/ LET d == diagnose_migrations_history(folder, table)
              next == Dispatch(d, force, folder, table)
          IN  /\ diagnostic' = Some(d)
              /\ pc' = next.pc
              /\ result' = next.result
              /\ work' = next.work
              /\ UNCHANGED <<folder, table, live, force, cursor, drift, tempdbs, log,
                             table0, live0>>
       \/ Fail /\ UNCHANGED <<diagnostic, tempdbs>>

\* connector.detect_drift and the arms Some(drift) / None of its match.
DetectDrift ==
    /\ pc = "detect_drift"
    /\ UNCHANGED outside_catch_up
    /\ \/ \* create_temporary_database fails
          Fail /\ UNCHANGED <<diagnostic, tempdbs>>
       \/ \* replaying the scripts or describing a schema fails
          /\ Fail /\ UNCHANGED diagnostic
          /\ \E temp_dir \in BOOLEAN : tempdbs' = out_of_scope(tempdbs + 1, temp_dir)
       \/ /\ \E temp_dir \in BOOLEAN : tempdbs' = out_of_scope(tempdbs + 1, temp_dir)
          /\ IF Drifted(live, ScriptsOf(folder))
             THEN /\ \E n \in 1..MaxDriftSteps : drift' = Some([steps |-> n])
                  /\ IF force
                     THEN pc' = "apply_step" /\ result' = result
                     ELSE pc' = "done" /\ result' = Returned(Some(MsgDrift), FALSE)
             ELSE /\ drift' = None
                  /\ pc' = "done"
                  /\ result' = Returned(None, TRUE)
          /\ cursor' = 0
          /\ UNCHANGED <<folder, table, live, force, diagnostic, work, log, table0, live0>>

\* ApplyStep without the loop: one call of apply_step, then Ok((None, true))
ApplyStep_once ==
    /\ pc = "apply_step"
    /\ UNCHANGED outside_catch_up
    /\ \/ /\ live' = IF drift[1].steps = 1
                       THEN Replayed(ScriptsOf(folder))
                       ELSE [live EXCEPT !.altered = @ + 1]
          /\ log' = Append(log, <<"apply_step", 0>>)
          /\ cursor' = 1
          /\ pc' = "done"
          /\ result' = Returned(None, TRUE)
          /\ UNCHANGED <<folder, table, force, diagnostic, work, drift, tempdbs,
                         table0, live0>>
       \/ Fail /\ UNCHANGED <<diagnostic, tempdbs>>

\* applier.apply_step(&drift, step): applies the step at that index and returns
\* true, or returns false when there is no such step.
ApplyStep ==
    /\ pc = "apply_step"
    /\ UNCHANGED outside_catch_up
    /\ IF has_step(drift[1], cursor)
       THEN \/ /\ live' = IF cursor + 1 = drift[1].steps
                          THEN Replayed(ScriptsOf(folder))
                          ELSE [live EXCEPT !.altered = @ + 1]
               /\ log' = Append(log, <<"apply_step", cursor>>)
               /\ cursor' = cursor + 1
               /\ UNCHANGED <<folder, table, pc, force, diagnostic, work, drift, tempdbs,
                              result, table0, live0>>
            \/ Fail /\ UNCHANGED <<diagnostic, tempdbs>>
       ELSE /\ pc' = "done"
            /\ result' = Returned(None, TRUE)
            /\ UNCHANGED <<folder, table, live, force, diagnostic, cursor, work, drift,
                           tempdbs, log, table0, live0>>

\* connector.persist_imperative_migration_to_table(migration_id, checksum, script)
PersistImperativeMigration ==
    /\ pc = "persist"
    /\ UNCHANGED outside_catch_up
    /\ LET filesystem_migration == work.unapplied[cursor + 1]
           script == read_migration_script(filesystem_migration)
           cks == Sha512(script)
       IN  \/ /\ table' = persist_imperative_migration_to_table(
                              table, migration_id(filesystem_migration), cks, script)
              /\ log' = Append(log, <<"persist", migration_id(filesystem_migration), cks>>)
              /\ pc' = "apply"
              /\ UNCHANGED <<folder, live, force, diagnostic, cursor, work, drift, tempdbs,
                             result, table0, live0>>
           \/ Fail /\ UNCHANGED <<diagnostic, tempdbs>>

\* ApplyMigrationScript that drops the error of a failed script and goes on
ApplyMigrationScript_unchecked ==
    /\ pc = "apply"
    /\ UNCHANGED outside_catch_up
    /\ LET script == read_migration_script(work.unapplied[cursor + 1])
       IN  \E ok \in BOOLEAN :
              /\ live' = raw_cmd(live, script, ok)
              /\ log' = Append(log, <<"apply", script, ok>>)
              /\ cursor' = cursor + 1
              /\ IF cursor + 1 = Len(work.unapplied)
                 THEN pc' = "done" /\ result' = Returned(None, TRUE)
                 ELSE pc' = "persist" /\ result' = result
              /\ UNCHANGED <<folder, table, force, diagnostic, work, drift, tempdbs,
                             table0, live0>>

\* applier.apply_migration_script(&script, &checksum), then the next iteration
\* of the for loop or Ok((None, true)).
ApplyMigrationScript ==
    /\ pc = "apply"
    /\ UNCHANGED outside_catch_up
    /\ LET script == read_migration_script(work.unapplied[cursor + 1])
       IN  \/ /\ live' = raw_cmd(live, script, TRUE)
              /\ log' = Append(log, <<"apply", script, TRUE>>)
              /\ cursor' = cursor + 1
              /\ IF cursor + 1 = Len(work.unapplied)
                 THEN pc' = "done" /\ result' = Returned(None, TRUE)
                 ELSE pc' = "persist" /\ result' = result
              /\ UNCHANGED <<folder, table, force, diagnostic, work, drift, tempdbs,
                             table0, live0>>
           \/ /\ live' = raw_cmd(live, script, FALSE)
              /\ log' = Append(log, <<"apply", script, FALSE>>)
              /\ pc' = "failed"
              /\ UNCHANGED <<folder, table, force, diagnostic, cursor, work, drift,
                             tempdbs, result, table0, live0>>

\* revert_to: self.drop_database()
DropDatabase ==
    /\ pc = "drop_database"
    /\ UNCHANGED outside_catch_up
    /\ \/ /\ live' = flavour_drop_database.live
          /\ table' = flavour_drop_database.table
          /\ log' = Append(log, <<"drop_database">>)
          /\ pc' = "reinitialize"
          /\ UNCHANGED <<folder, force, diagnostic, cursor, work, drift, tempdbs, result,
                         table0, live0>>
       \/ Fail /\ UNCHANGED <<diagnostic, tempdbs>>

\* revert_to: flavour.initialize and ensure_imperative_migrations_table
Reinitialize ==
    /\ pc = "reinitialize"
    /\ UNCHANGED outside_catch_up
    /\ \/ /\ pc' = IF Len(work.replay) > 0 THEN "replay" ELSE after_replay(diagnostic[1])
          /\ cursor' = 0
          /\ UNCHANGED <<folder, table, live, force, diagnostic, work, drift, tempdbs,
                         result, log, table0, live0>>
       \/ Fail /\ UNCHANGED <<diagnostic, tempdbs>>

\* ReplayMigrationScript that drops the error of a failed script and goes on
ReplayMigrationScript_unchecked ==
    /\ pc = "replay"
    /\ UNCHANGED outside_catch_up
    /\ LET script == work.replay[cursor + 1]
       IN  \E ok \in BOOLEAN :
              /\ live' = raw_cmd(live, script, ok)
              /\ log' = Append(log, <<"apply", script, ok>>)
              /\ IF cursor + 1 = Len(work.replay)
                 THEN pc' = after_replay(diagnostic[1]) /\ cursor' = 0
                 ELSE pc' = pc /\ cursor' = cursor + 1
              /\ UNCHANGED <<folder, table, force, diagnostic, work, drift, tempdbs,
                             result, table0, live0>>

\* revert_to: applier.apply_migration_script(script, &checksum) for each script
ReplayMigrationScript ==
    /\ pc = "replay"
    /\ UNCHANGED outside_catch_up
    /\ LET script == work.replay[cursor + 1]
       IN  \/ /\ live' = raw_cmd(live, script, TRUE)
              /\ log' = Append(log, <<"apply", script, TRUE>>)
              /\ IF cursor + 1 = Len(work.replay)
                 THEN pc' = after_replay(diagnostic[1]) /\ cursor' = 0
                 ELSE pc' = pc /\ cursor' = cursor + 1
              /\ UNCHANGED <<folder, table, force, diagnostic, work, drift, tempdbs,
                             result, table0, live0>>
           \/ /\ live' = raw_cmd(live, script, FALSE)
              /\ log' = Append(log, <<"apply", script, FALSE>>)
              /\ pc' = "failed"
              /\ UNCHANGED <<folder, table, force, diagnostic, cursor, work, drift,
                             tempdbs, result, table0, live0>>

\* connector.initialize() after revert_to in the FilesystemIsBehind branch
Initialize ==
    /\ pc = "initialize"
    /\ UNCHANGED outside_catch_up
    /\ \/ /\ pc' = "done"
          /\ result' = Returned(None, TRUE)
          /\ UNCHANGED <<folder, table, live, force, diagnostic, cursor, work, drift,
                         tempdbs, log, table0, live0>>
       \/ Fail /\ UNCHANGED <<diagnostic, tempdbs>>

Next ==
    \/ ReadImperativeMigrations
    \/ DetectDrift
    \/ ApplyStep
    \/ PersistImperativeMigration
    \/ ApplyMigrationScript
    \/ DropDatabase
    \/ Reinitialize
    \/ ReplayMigrationScript
    \/ Initialize

Spec == Init /\ [][Next]_vars

----------------------------------------------------------------------------
(* catch_up with the force flag, from folders long enough for revert_to to *)
(* have scripts to replay before the folder's tail is applied again.       *)

\* longest migrations folder a forced command starts from
ForceMaxFolder == 3

ForceInit ==
    /\ folder \in Folders(ForceMaxFolder)
    /\ table \in SeqsUpTo(Rows(RowNames), MaxApplied)
    /\ \E e \in BOOLEAN :
          live = [Replayed(ScriptsOfRows(AppliedOnly(table))) EXCEPT !.extra = e]
    /\ force = TRUE
    /\ pc = "catch_up"
    /\ diagnostic = None
    /\ cursor = 0
    /\ work = NoWork
    /\ drift = None
    /\ tempdbs = 0
    /\ result = None
    /\ log = <<>>
    /\ table0 = table
    /\ live0 = live
    /\ input = None
    /\ database_migration = None
    /\ checks = None
    /\ output = None
    /\ clock = 0
    /\ dir = {}
    /\ inserted = <<>>

SpecForce == ForceInit /\ [][Next]_vars

----------------------------------------------------------------------------
(* Specification of the pure diagnostic: inputs drawn from the bounded     *)
(* domains, one action applying the function.  The diagnostic never reads  *)
(* a row's name, so the rows drawn here all carry the same name.           *)

DiagInit ==
    /\ folder \in Folders(DiagMaxFolder)
    /\ table \in SeqsUpTo(Rows({1}), DiagMaxApplied)
    /\ live = EmptyDatabase
    /\ pc = "input"
    /\ force = FALSE
    /\ diagnostic = None
    /\ cursor = 0
    /\ work = NoWork
    /\ drift = None
    /\ tempdbs = 0
    /\ result = None
    /\ log = <<>>
    /\ table0 = table
    /\ live0 = live
    /\ input = None
    /\ database_migration = None
    /\ checks = None
    /\ output = None
    /\ clock = 0
    /\ dir = {}
    /\ inserted = <<>>

Diagnose ==
    /\ pc = "input"
    /\ UNCHANGED outside_catch_up
    /\ diagnostic' = Some(diagnose_migrations_history(folder, table))
    /\ pc' = "diagnosed"
    /\ UNCHANGED <<folder, table, live, force, cursor, work, drift, tempdbs, result, log,
                   table0, live0>>

DiagNext == Diagnose

SpecDiag == DiagInit /\ [][DiagNext]_vars

----------------------------------------------------------------------------
(* schema_push: SchemaPushCommand::execute, with catch_up as its first     *)
(* part when the project uses a migrations folder.                         *)

\* longest migrations folder a schema_push starts from
PushMaxFolder == 2
\* longest applied-migrations table a schema_push starts from
PushMaxApplied == 2
\* most steps of the migration inferred for the pushed schema
MaxSteps == 2
\* most warnings, and most unexecutable migrations, the checker reports
MaxDiagnostics == 1

\* SchemaPushInput, but for the schema text and the force flag
SchemaPushInput ==
    [migrations_folder_path : {None, Some("migrations")},
     accept_data_loss : BOOLEAN,
     draft : BOOLEAN]

SchemaPushOutput(executed_steps, warnings, unexecutable, radical_measure) ==
    [executed_steps |-> executed_steps, warnings |-> warnings,
     unexecutable |-> unexecutable, radical_measure |-> radical_measure]

\* the descriptions of n diagnostics of one kind
Descriptions(kind, n) == [i \in 1..n |-> <<kind, i>>]

\* What inferrer.infer can return: the empty migration, or a migration of some
\* steps, which render_migration_script renders as one script.
DatabaseMigrations ==
    {[steps |-> 0, script |-> ""]}
        \cup {[steps |-> n, script |-> sc] : n \in 1..MaxSteps, sc \in Scripts}

\* What checker.check can return for a migration: nothing for an empty one.
DestructiveChangeDiagnostics(migration) ==
    IF migration.steps = 0
    THEN {[unexecutable_migrations |-> <<>>, warnings |-> <<>>]}
    ELSE {[unexecutable_migrations |-> Descriptions("unexecutable", u),
           warnings |-> Descriptions("warning", w)] :
             u \in 0..MaxDiagnostics, w \in 0..MaxDiagnostics}

migration_is_empty(migration) == migration.steps = 0

\* should_apply in which accept_data_loss also overrides unexecutable migrations
should_apply_lenient(chk, inp) ==
    \/ Len(chk.unexecutable_migrations) = 0 /\ Len(chk.warnings) = 0
    \/ inp.accept_data_loss

\* should_apply: the match on (unexecutable.len(), warnings.len(), accept_data_loss)
should_apply(chk, inp) ==
    LET unexecutable == Len(chk.unexecutable_migrations)
        warnings == Len(chk.warnings)
    IN  IF unexecutable > 0
        THEN FALSE
        ELSE IF (unexecutable = 0 /\ warnings = 0)
                 \/ (unexecutable = 0 /\ inp.accept_data_loss)
             THEN TRUE
             ELSE FALSE

\* the output of the early returns: nothing executed, nothing reported
NothingPushed(radical_measure) == SchemaPushOutput(0, <<>>, <<>>, radical_measure)

\* the output that reports the checker's diagnostics
Reported(executed_steps, chk) ==
    SchemaPushOutput(executed_steps, chk.warnings, chk.unexecutable_migrations, None)

PushGoto(p) == [pc |-> p, output |-> None]
PushReturn(out) == [pc |-> "returned", output |-> Some(out)]

\* after_catch_up that goes on whatever catch_up returned
after_catch_up_proceeding(res) == PushGoto("infer")

\* The match on catch_up's result.
after_catch_up(res) ==
    IF res.radical_measure # None
    THEN PushReturn(NothingPushed(res.radical_measure))
    ELSE IF ~res.proceed
         THEN PushReturn(NothingPushed(None))
         ELSE PushGoto("infer")

\* What execute does with the checks, up to its next operation: with a
\* migrations folder the tests of migration_is_empty, should_apply and
\* path.exists(); without one, apply_to_dev_database's test of should_apply.
after_check(inp, migration, chk, path_exists) ==
    IF inp.migrations_folder_path # None
    THEN IF migration_is_empty(migration)
         THEN PushReturn(NothingPushed(None))
         ELSE IF ~should_apply(chk, inp)
              THEN PushReturn(NothingPushed(None))
              ELSE IF ~path_exists
                   THEN PushGoto("failed")
                   ELSE PushGoto("create_migration_folder")
    ELSE IF should_apply(chk, inp)
         THEN PushGoto("push_apply_step")
         ELSE PushReturn(Reported(0, chk))

\* The rows schema_push and catch_up leave behind: they mark none as rolled back.
PushRows == {row \in Rows(RowNames) : is_applied(row)}

\* The state before a schema_push.  A project that passes no migrations folder
\* has none, and no applied-migrations table either.
PushInit ==
    /\ input \in SchemaPushInput
    /\ IF input.migrations_folder_path # None
       THEN /\ folder \in Folders(PushMaxFolder)
            /\ table \in SeqsUpTo(PushRows, PushMaxApplied)
       ELSE /\ folder = <<>>
            /\ table = <<>>
    /\ \E e \in BOOLEAN :
          live = [Replayed(ScriptsOfRows(AppliedOnly(table))) EXCEPT !.extra = e]
    /\ force \in BOOLEAN
    /\ pc = "schema_push"
    /\ diagnostic = None
    /\ cursor = 0
    /\ work = NoWork
    /\ drift = None
    /\ tempdbs = 0
    /\ result = None
    /\ log = <<>>
    /\ table0 = table
    /\ live0 = live
    /\ database_migration = None
    /\ checks = None
    /\ output = None
    /\ clock = 0
    /\ dir = {}
    /\ inserted = <<>>

\* an operation of execute returned an error, which `?` returns to the caller
PushFail ==
    /\ Fail
    /\ UNCHANGED <<diagnostic, tempdbs, input, database_migration, checks, output,
                   clock, dir, inserted>>

\* parse_datamodel, then the test of migrations_folder_path
ParseDatamodel ==
    /\ pc = "schema_push"
    /\ \/ /\ pc' = IF input.migrations_folder_path # None THEN "catch_up" ELSE "infer"
          /\ UNCHANGED <<folder, table, live, force, diagnostic, cursor, work, drift,
                         tempdbs, result, log, table0, live0, input,
                         database_migration, checks, output, clock, dir, inserted>>
       \/ PushFail

\* catch_up(..).await? returned Ok: the match on its result
CatchUpReturned ==
    /\ pc = "done"
    /\ LET next == after_catch_up(result[1])
       IN  /\ pc' = next.pc
           /\ output' = next.output
    /\ UNCHANGED <<folder, table, live, force, diagnostic, cursor, work, drift,
                   tempdbs, result, log, table0, live0, input,
                   database_migration, checks, clock, dir, inserted>>

\* inferrer.infer(&schema, &schema, &[])
Infer ==
    /\ pc = "infer"
    /\ \/ /\ database_migration' \in {Some(m) : m \in DatabaseMigrations}
          /\ pc' = "check"
          /\ UNCHANGED <<folder, table, live, force, diagnostic, cursor, work, drift,
                         tempdbs, result, log, table0, live0, input,
                         checks, output, clock, dir, inserted>>
       \/ PushFail

\* checker.check(&database_migration), and what follows up to the next operation
Check ==
    /\ pc = "check"
    /\ \/ \E chk \in DestructiveChangeDiagnostics(database_migration[1]) :
          \E path_exists \in BOOLEAN :
             LET next == after_check(input, database_migration[1], chk, path_exists)
             IN  /\ checks' = Some(chk)
                 /\ pc' = next.pc
                 /\ output' = next.output
                 /\ cursor' = 0
                 /\ UNCHANGED <<folder, table, live, force, diagnostic, work, drift,
                                tempdbs, result, log, table0, live0, input,
                                database_migration, clock, dir, inserted>>
       \/ PushFail

\* create_migration_folder(path, "draft"): the folder is named after the
\* current time, which can be the name of a folder that exists; a new folder
\* is listed after the folders that exist.
CreateMigrationFolder ==
    /\ pc = "create_migration_folder"
    /\ \/ \E folder_name \in 1..(Len(folder) + 1) :
             IF \E i \in 1..Len(folder) : migration_id(folder[i]) = folder_name
             THEN /\ log' = Append(log, <<"AlreadyExists", folder_name>>)
                  /\ pc' = "failed"
                  /\ UNCHANGED <<folder, table, live, force, diagnostic, cursor, work,
                                 drift, tempdbs, result, table0, live0, input,
                                 database_migration, checks, output, clock, dir,
                                 inserted>>
             ELSE /\ folder' = Append(folder, [id |-> folder_name, script |-> Null])
                  /\ log' = Append(log, <<"create_migration_folder", folder_name>>)
                  /\ pc' = "write_migration_script"
                  /\ UNCHANGED <<table, live, force, diagnostic, cursor, work, drift,
                                 tempdbs, result, table0, live0, input,
                                 database_migration, checks, output, clock, dir,
                                 inserted>>
       \/ PushFail

\* write_migration_script that writes into the oldest folder of the directory
WriteMigrationScript_overwriting ==
    /\ pc = "write_migration_script"
    /\ \/ /\ folder' = [folder EXCEPT ![1].script = database_migration[1].script]
          /\ IF input.draft
             THEN pc' = "returned" /\ output' = Some(NothingPushed(None))
             ELSE pc' = "push_persist" /\ output' = output
          /\ UNCHANGED <<table, live, force, diagnostic, cursor, work, drift,
                         tempdbs, result, log, table0, live0, input,
                         database_migration, checks, clock, dir, inserted>>
       \/ PushFail

\* WriteMigrationScript without the test of draft
WriteMigrationScript_applying ==
    /\ pc = "write_migration_script"
    /\ \/ /\ folder' = [folder EXCEPT ![Len(folder)].script = database_migration[1].script]
          /\ pc' = "push_persist"
          /\ output' = output
          /\ UNCHANGED <<table, live, force, diagnostic, cursor, work, drift,
                         tempdbs, result, log, table0, live0, input,
                         database_migration, checks, clock, dir, inserted>>
       \/ PushFail

\* folder.write_migration_script(&script, extension), then the test of draft
WriteMigrationScript ==
    /\ pc = "write_migration_script"
    /\ \/ /\ folder' = [folder EXCEPT ![Len(folder)].script = database_migration[1].script]
          /\ IF input.draft
             THEN pc' = "returned" /\ output' = Some(NothingPushed(None))
             ELSE pc' = "push_persist" /\ output' = output
          /\ UNCHANGED <<table, live, force, diagnostic, cursor, work, drift,
                         tempdbs, result, log, table0, live0, input,
                         database_migration, checks, clock, dir, inserted>>
       \/ PushFail

\* connector.persist_imperative_migration_to_table(folder.migration_id(), checksum, &script)
PushPersist ==
    /\ pc = "push_persist"
    /\ LET new == folder[Len(folder)]
           script == database_migration[1].script
       IN  \/ /\ table' = persist_imperative_migration_to_table(
                              table, migration_id(new), Sha512(script), script)
              /\ log' = Append(log, <<"persist", migration_id(new), Sha512(script)>>)
              /\ pc' = "push_apply"
              /\ UNCHANGED <<folder, live, force, diagnostic, cursor, work, drift,
                             tempdbs, result, table0, live0, input,
                             database_migration, checks, output, clock, dir, inserted>>
           \/ PushFail

\* applier.apply_migration_script(&script, &checksum), then Ok(SchemaPushOutput { .. })
PushApply ==
    /\ pc = "push_apply"
    /\ LET script == database_migration[1].script
       IN  \/ /\ live' = raw_cmd(live, script, TRUE)
              /\ log' = Append(log, <<"apply", script, TRUE>>)
              /\ pc' = "returned"
              /\ output' = Some(Reported(1, checks[1]))
           \/ /\ live' = raw_cmd(live, script, FALSE)
              /\ log' = Append(log, <<"apply", script, FALSE>>)
              /\ pc' = "failed"
              /\ output' = output
    /\ UNCHANGED <<folder, table, force, diagnostic, cursor, work, drift,
                   tempdbs, result, table0, live0, input,
                   database_migration, checks, clock, dir, inserted>>

\* PushApplyStep that counts the call of apply_step that found no step
PushApplyStep_overcounting ==
    /\ pc = "push_apply_step"
    /\ IF has_step(database_migration[1], cursor)
       THEN \/ /\ live' = [live EXCEPT !.altered = @ + 1]
               /\ log' = Append(log, <<"apply_step", cursor>>)
               /\ cursor' = cursor + 1
               /\ UNCHANGED <<folder, table, pc, force, diagnostic, work, drift,
                              tempdbs, result, table0, live0, input,
                              database_migration, checks, output, clock, dir, inserted>>
            \/ PushFail
       ELSE /\ pc' = "returned"
            /\ output' = Some(Reported(cursor + 1, checks[1]))
            /\ UNCHANGED <<folder, table, live, force, diagnostic, cursor, work, drift,
                           tempdbs, result, log, table0, live0, input,
                           database_migration, checks, clock, dir, inserted>>

\* apply_to_dev_database: while applier.apply_step(&database_migration, step).await? { step += 1 }
PushApplyStep ==
    /\ pc = "push_apply_step"
    /\ IF has_step(database_migration[1], cursor)
       THEN \/ /\ live' = [live EXCEPT !.altered = @ + 1]
               /\ log' = Append(log, <<"apply_step", cursor>>)
               /\ cursor' = cursor + 1
               /\ UNCHANGED <<folder, table, pc, force, diagnostic, work, drift,
                              tempdbs, result, table0, live0, input,
                              database_migration, checks, output, clock, dir, inserted>>
            \/ PushFail
       ELSE /\ pc' = "returned"
            /\ output' = Some(Reported(cursor, checks[1]))
            /\ UNCHANGED <<folder, table, live, force, diagnostic, cursor, work, drift,
                           tempdbs, result, log, table0, live0, input,
                           database_migration, checks, clock, dir, inserted>>

PushNext ==
    \/ ParseDatamodel
    \/ ReadImperativeMigrations
    \/ DetectDrift
    \/ ApplyStep
    \/ PersistImperativeMigration
    \/ ApplyMigrationScript
    \/ DropDatabase
    \/ Reinitialize
    \/ ReplayMigrationScript
    \/ Initialize
    \/ CatchUpReturned
    \/ Infer
    \/ Check
    \/ CreateMigrationFolder
    \/ WriteMigrationScript
    \/ PushPersist
    \/ PushApply
    \/ PushApplyStep

SpecPush == PushInit /\ [][PushNext]_vars

\* longest folder and longest table a schema_push starts from when its
\* termination is checked
StepsMaxFolder == 1
StepsMaxApplied == 1

StepsInit ==
    /\ PushInit
    /\ Len(folder) <= StepsMaxFolder
    /\ Len(table) <= StepsMaxApplied

\* Each call the command makes returns: the runtime polls the command's future
\* until it is ready.
SpecSteps == StepsInit /\ [][PushNext]_vars /\ WF_vars(PushNext)

----------------------------------------------------------------------------
(* The migrations directory: create_migration_folder names a folder after  *)
(* the wall clock, list_migrations sorts the folders by name.  Names are   *)
(* byte strings, compared as Rust compares str: byte by byte.              *)

\* the days, hours, minutes and seconds the wall clock takes
LastDay == 2
LastHour == 1
LastMinute == 1
LastSecond == 1
\* most folders created in the directory
MaxDirEntries == 2

Year == 2020
Month == 1

Times ==
    [day : 1..LastDay, hour : 0..LastHour, minute : 0..LastMinute, second : 0..LastSecond]

\* t is earlier than u
TimeLess(t, u) ==
    \/ t.day < u.day
    \/ t.day = u.day /\ t.hour < u.hour
    \/ t.day = u.day /\ t.hour = u.hour /\ t.minute < u.minute
    \/ t.day = u.day /\ t.hour = u.hour /\ t.minute = u.minute /\ t.second < u.second

\* the ASCII code of a decimal digit
Digit(d) == 48 + d

\* n in decimal, zero-padded to two and to four digits
Pad2(n) == <<Digit((n \div 10) % 10), Digit(n % 10)>>
Pad4(n) == <<Digit((n \div 1000) % 10), Digit((n \div 100) % 10)>> \o Pad2(n)

\* chrono's format("%Y%m%d%M%S"): year, month, day, minute, second
FormatTimestamp(t) ==
    Pad4(Year) \o Pad2(Month) \o Pad2(t.day) \o Pad2(t.minute) \o Pad2(t.second)

\* "_draft"
DraftSuffix == <<95, 100, 114, 97, 102, 116>>

\* format!("{timestamp}_{migration_name}") with the name schema_push passes
folder_name(t) == FormatTimestamp(t) \o DraftSuffix

\* a.cmp(b) = Less on byte strings
StrLess(a, b) ==
    \E k \in 1..(Len(b)) :
        /\ \A i \in 1..(k - 1) : i <= Len(a) /\ a[i] = b[i]
        /\ \/ k = Len(a) + 1
           \/ k <= Len(a) /\ a[k] < b[k]

\* entries.sort_by(|a, b| a.migration_id().cmp(b.migration_id())): the entries of
\* a directory have distinct names, so the sorted order is unique.
list_migrations(entries) ==
    [i \in 1..Cardinality(entries) |->
        CHOOSE e \in entries :
            Cardinality({x \in entries : StrLess(x.id, e.id)}) = i - 1]

FolderInit ==
    /\ clock \in Times
    /\ dir = {}
    /\ folder = <<>>
    /\ pc = "migrations_folder"
    /\ table = <<>>
    /\ live = EmptyDatabase
    /\ force = FALSE
    /\ diagnostic = None
    /\ cursor = 0
    /\ work = NoWork
    /\ drift = None
    /\ tempdbs = 0
    /\ result = None
    /\ log = <<>>
    /\ table0 = table
    /\ live0 = live
    /\ input = None
    /\ database_migration = None
    /\ checks = None
    /\ output = None
    /\ inserted = <<>>

\* what the operations on the migrations directory never write
outside_folder == <<table, live, pc, force, diagnostic, cursor, work, drift, tempdbs,
                    result, table0, live0, input, database_migration, checks, output,
                    inserted>>

\* time passes
Tick ==
    /\ \E t \in Times : TimeLess(clock, t) /\ clock' = t
    /\ UNCHANGED <<dir, folder, log>>
    /\ UNCHANGED outside_folder

\* create_migration_folder(path, "draft"): an error when the folder exists.
\* log holds the outcome of the last call only.
CreateFolder ==
    /\ Cardinality(dir) < MaxDirEntries
    /\ LET name == folder_name(clock)
       IN  IF \E e \in dir : e.id = name
           THEN /\ log' = << <<"AlreadyExists", name>> >>
                /\ dir' = dir
           ELSE /\ dir' = dir \cup {[id |-> name, created |-> clock]}
                /\ log' = << <<"create_migration_folder", name>> >>
    /\ UNCHANGED <<clock, folder>>
    /\ UNCHANGED outside_folder

\* list_migrations(path)
ListMigrations ==
    /\ folder' = list_migrations(dir)
    /\ UNCHANGED <<clock, dir, log>>
    /\ UNCHANGED outside_folder

FolderNext ==
    \/ Tick
    \/ CreateFolder
    \/ ListMigrations

SpecFolder == FolderInit /\ [][FolderNext]_vars

----------------------------------------------------------------------------
(* The applied-migrations table as the database stores it.  table holds    *)
(* the rows in the order in which a SELECT without ORDER BY returns them,  *)
(* inserted holds them in the order of their INSERTs.                      *)

\* most rows inserted
MaxStoreRows == 3

\* Update::table(..).so_that(checksum IN rolled_back_checksums).set("rolledBackAt", ..)
mark_rolled_back(rows, rolled_back_checksums) ==
    [i \in 1..Len(rows) |->
        IF rows[i].checksum \in rolled_back_checksums
        THEN [rows[i] EXCEPT !.rolled_back_at = Now]
        ELSE rows[i]]

\* The order in which a SELECT without ORDER BY scans the rows after an UPDATE of
\* the rows picked: the engine rewrote them in place, or it wrote their new
\* versions behind the rows that exist, as a multi-version engine does.
scan_after_update(rows, picked, relocate) ==
    LET idx == [i \in 1..Len(rows) |-> i]
        kept == SelectSeq(idx, LAMBDA i : ~picked[i])
        moved == SelectSeq(idx, LAMBDA i : picked[i])
        order == kept \o moved
    IN  IF relocate THEN [k \in 1..Len(rows) |-> rows[order[k]]] ELSE rows

StoreInit ==
    /\ table = <<>>
    /\ inserted = <<>>
    /\ result = None
    /\ pc = "store"
    /\ folder = <<>>
    /\ live = EmptyDatabase
    /\ force = FALSE
    /\ diagnostic = None
    /\ cursor = 0
    /\ work = NoWork
    /\ drift = None
    /\ tempdbs = 0
    /\ log = <<>>
    /\ table0 = table
    /\ live0 = live
    /\ input = None
    /\ database_migration = None
    /\ checks = None
    /\ output = None
    /\ clock = 0
    /\ dir = {}

\* what the statements on the table never write
outside_store == <<folder, live, force, diagnostic, cursor, work, drift, tempdbs, log,
                   table0, live0, input, database_migration, checks, output, clock, dir>>

\* persist_imperative_migration_to_table: the INSERT
StoreInsert ==
    /\ Len(inserted) < MaxStoreRows
    /\ \E name \in RowNames, script \in Scripts :
          /\ table' = persist_imperative_migration_to_table(
                          table, name, Sha512(script), script)
          /\ inserted' = persist_imperative_migration_to_table(
                             inserted, name, Sha512(script), script)
    /\ pc' = "store"
    /\ UNCHANGED result
    /\ UNCHANGED outside_store

\* smart_revert_to: the UPDATE that marks the rows to be rolled back
StoreUpdate ==
    /\ \E to_be_rolled_back \in SUBSET {table[i].checksum : i \in 1..Len(table)} :
          /\ to_be_rolled_back # {}
          /\ \E i \in 1..Len(table) :
                table[i].checksum \in to_be_rolled_back /\ is_applied(table[i])
          /\ \E relocate \in BOOLEAN :
                table' = scan_after_update(
                             mark_rolled_back(table, to_be_rolled_back),
                             [i \in 1..Len(table) |-> table[i].checksum \in to_be_rolled_back],
                             relocate)
          /\ inserted' = mark_rolled_back(inserted, to_be_rolled_back)
    /\ pc' = "store"
    /\ UNCHANGED result
    /\ UNCHANGED outside_store

\* read_imperative_migrations: the SELECT, which has no ORDER BY
StoreRead ==
    /\ result' = Some(table)
    /\ pc' = "read"
    /\ UNCHANGED <<table, inserted>>
    /\ UNCHANGED outside_store

StoreNext ==
    \/ StoreInsert
    \/ StoreUpdate
    \/ StoreRead

SpecStore == StoreInit /\ [][StoreNext]_vars

----------------------------------------------------------------------------
(* The schema differ's hooks for SQL Server: column_type_change classifies *)
(* the change of one column's type, tables_to_redefine names the tables    *)
(* that are rebuilt instead of altered.                                    *)

\* most column pairs of a table pair
MaxColumnPairs == 2

\* the type families the hooks tell apart, and Boolean for every other one
ColumnTypeFamilies == {"Int", "Float", "Boolean", "String", "DateTime"}

ColumnArities == {"Required", "Nullable"}

\* the native types of the columns, each with the family it belongs to
MsSqlTypes ==
    {<<"Boolean", "Bit">>, <<"Int", "SmallInt">>, <<"Int", "Int">>,
     <<"String", "Text">>, <<"String", "VarChar">>}

SafeCast == "SafeCast"
RiskyCast == "RiskyCast"
NotCastable == "NotCastable"

\* Column: its type (family, arity, native type) and auto_increment
Columns ==
    {[family |-> f, arity |-> a, native_type |-> None, auto_increment |-> i] :
        f \in ColumnTypeFamilies, a \in ColumnArities, i \in BOOLEAN}
    \cup {[family |-> t[1], arity |-> a, native_type |-> Some(t[2]), auto_increment |-> i] :
            t \in MsSqlTypes, a \in ColumnArities, i \in BOOLEAN}

\* ColumnDiffer: a column of the previous schema and the column of the same
\* name in the next one
ColumnDiffers == [previous : Columns, next : Columns]

column_type_family(column) == column.family
column_native_type(column) == column.native_type
is_autoincrement(column) == column.auto_increment

\* ColumnDiffer::autoincrement_changed
autoincrement_changed(differ) ==
    is_autoincrement(differ.previous) # is_autoincrement(differ.next)

\* type_change_riskyness without the arm for DateTime -> Float
type_change_riskyness_short(differ) ==
    LET previous == column_type_family(differ.previous)
        next == column_type_family(differ.next)
    IN  IF next = "String"
        THEN SafeCast
        ELSE IF previous = "String" /\ next \in {"Int", "Float"}
             THEN NotCastable
             ELSE RiskyCast

\* type_change_riskyness: the match on (previous family, next family), its arms
\* tried in order
type_change_riskyness(differ) ==
    LET previous == column_type_family(differ.previous)
        next == column_type_family(differ.next)
    IN  IF next = "String"
        THEN SafeCast
        ELSE IF \/ previous = "String" /\ next = "Int"
                \/ previous = "DateTime" /\ next = "Float"
                \/ previous = "String" /\ next = "Float"
             THEN NotCastable
             ELSE RiskyCast

\* the pairs of native types for which native_type_change_riskyness has an arm
HasArm(left, right) ==
    \/ left = right
    \/ left = "Bit" /\ right \in {"SmallInt", "Int", "Text"}
    \/ left = "SmallInt" /\ right \in {"Int", "Text"}
    \/ left = "Int" /\ right = "Text"
    \/ right = "VarChar"

\* native_type_change_riskyness: the match on (previous native type, next
\* native type), for the native types of MsSqlTypes
native_type_change_riskyness(differ) ==
    LET previous_type == column_native_type(differ.previous)
        next_type == column_native_type(differ.next)
    IN  IF previous_type = None \/ next_type = None
        THEN type_change_riskyness(differ)
        ELSE LET left == previous_type[1]
                 right == next_type[1]
             IN  CASE left = right -> SafeCast
                   [] left = "Bit" /\ right \in {"SmallInt", "Int"} -> SafeCast
                   [] left = "Bit" /\ right = "Text" -> NotCastable
                   [] left = "SmallInt" /\ right = "Int" -> SafeCast
                   [] left = "SmallInt" /\ right = "Text" -> NotCastable
                   [] left = "Int" /\ right = "Text" -> NotCastable
                   [] right = "VarChar" -> SafeCast

\* column_type_change: the hook of MssqlFlavour
column_type_change(differ) ==
    IF column_type_family(differ.previous) = column_type_family(differ.next)
    THEN None
    ELSE Some(type_change_riskyness(differ))

\* The state before the hook is called on one column pair.
ColumnInit ==
    /\ input \in ColumnDiffers
    /\ pc = "column_differ"
    /\ result = None
    /\ folder = <<>>
    /\ table = <<>>
    /\ live = EmptyDatabase
    /\ force = FALSE
    /\ diagnostic = None
    /\ cursor = 0
    /\ work = NoWork
    /\ drift = None
    /\ tempdbs = 0
    /\ log = <<>>
    /\ table0 = table
    /\ live0 = live
    /\ database_migration = None
    /\ checks = None
    /\ output = None
    /\ clock = 0
    /\ dir = {}
    /\ inserted = <<>>

\* what the differ's hooks never write
outside_differ == <<folder, table, live, force, diagnostic, cursor, work, drift,
                    tempdbs, log, table0, live0, input, database_migration, checks,
                    output, clock, dir, inserted>>

\* flavour.column_type_change(&differ)
ColumnTypeChange ==
    /\ pc = "column_differ"
    /\ result' = Some(column_type_change(input))
    /\ pc' = "classified"
    /\ UNCHANGED outside_differ

ColumnNext == ColumnTypeChange

SpecColumn == ColumnInit /\ [][ColumnNext]_vars

\* the names of the tables of the two schemas
TableNames == {"A", "B"}

\* The column pairs of the table pairs: columns without native type, with and
\* without a change of family and of auto_increment.
PlainColumn(f, i) ==
    [family |-> f, arity |-> "Required", native_type |-> None, auto_increment |-> i]

TableColumnDiffers ==
    {[previous |-> PlainColumn(f, FALSE), next |-> PlainColumn(g, i)] :
        f \in {"String", "Int"}, g \in {"String", "Int"}, i \in BOOLEAN}

\* SqlSchemaDiffer::table_pairs: the tables present in both schemas
table_pairs(differ) == DOMAIN differ

\* TableDiffer::column_pairs: the columns present in both tables
column_pairs(differ, tbl) == differ[tbl]

\* tables_to_redefine in which one column that cannot be cast is enough
tables_to_redefine_any(differ) ==
    LET autoincrement_changed_tables ==
            {tbl \in table_pairs(differ) :
                \E c \in 1..Len(column_pairs(differ, tbl)) :
                    autoincrement_changed(column_pairs(differ, tbl)[c])}
        all_columns_of_the_table_gets_dropped ==
            {tbl \in table_pairs(differ) :
                \E c \in 1..Len(column_pairs(differ, tbl)) :
                    LET columns == column_pairs(differ, tbl)[c]
                        type_changed == column_type_family(columns.previous)
                                            # column_type_family(columns.next)
                        not_castable == type_change_riskyness(columns) = NotCastable
                    IN  type_changed /\ not_castable}
    IN  autoincrement_changed_tables \cup all_columns_of_the_table_gets_dropped

\* tables_to_redefine: the names of the two filtered chains of table pairs,
\* collected into a set
tables_to_redefine(differ) ==
    LET autoincrement_changed_tables ==
            {tbl \in table_pairs(differ) :
                \E c \in 1..Len(column_pairs(differ, tbl)) :
                    autoincrement_changed(column_pairs(differ, tbl)[c])}
        all_columns_of_the_table_gets_dropped ==
            {tbl \in table_pairs(differ) :
                \A c \in 1..Len(column_pairs(differ, tbl)) :
                    LET columns == column_pairs(differ, tbl)[c]
                        type_changed == column_type_family(columns.previous)
                                            # column_type_family(columns.next)
                        not_castable == type_change_riskyness(columns) = NotCastable
                    IN  type_changed /\ not_castable}
    IN  autoincrement_changed_tables \cup all_columns_of_the_table_gets_dropped

\* The state before the hook is called on two schemas: the tables present in
\* both, each with its column pairs.
DifferInit ==
    /\ \E both \in SUBSET TableNames :
          input \in [both -> SeqsUpTo(TableColumnDiffers, MaxColumnPairs)]
    /\ pc = "schema_differ"
    /\ result = None
    /\ folder = <<>>
    /\ table = <<>>
    /\ live = EmptyDatabase
    /\ force = FALSE
    /\ diagnostic = None
    /\ cursor = 0
    /\ work = NoWork
    /\ drift = None
    /\ tempdbs = 0
    /\ log = <<>>
    /\ table0 = table
    /\ live0 = live
    /\ database_migration = None
    /\ checks = None
    /\ output = None
    /\ clock = 0
    /\ dir = {}
    /\ inserted = <<>>

\* flavour.tables_to_redefine(&differ)
TablesToRedefine ==
    /\ pc = "schema_differ"
    /\ result' = Some(tables_to_redefine(input))
    /\ pc' = "redefined"
    /\ UNCHANGED outside_differ

DifferNext == TablesToRedefine

SpecDiffer == DifferInit /\ [][DifferNext]_vars

----------------------------------------------------------------------------
(* The script file of one migration folder: write_migration_script names   *)
(* the file after the extension it is given, read_migration_script and     *)
(* checksum read the file migration.sql.                                   *)

\* longest script text written
MaxScriptLen == 3

\* script texts, as sequences of characters
ScriptTexts == SeqsUpTo({"a", "b"}, MaxScriptLen)

\* file extensions a render_migration_script can return
Extensions == {"sql", "js", "toml", ""}

\* MIGRATION_SCRIPT_FILENAME
MIGRATION_SCRIPT_FILENAME == "migration"

\* PathBuf::set_extension on a file name without extension: an empty extension
\* leaves the name as it is.
set_extension(file_name, extension) ==
    IF extension = "" THEN <<file_name>> ELSE <<file_name, extension>>

IoOk(value) == [ok |-> TRUE, value |-> value]
IoErr(kind) == [ok |-> FALSE, value |-> kind]

\* File::create(&path) and write_all(script): the file is created, or truncated
\* when it exists, and holds the script.
write_migration_script(files, script, extension) ==
    LET path == set_extension(MIGRATION_SCRIPT_FILENAME, extension)
    IN  {f \in files : f.path # path} \cup {[path |-> path, content |-> script]}

\* MigrationFolder::read_migration_script on the files of the folder:
\* std::fs::read_to_string(&self.0.join("migration.sql"))
read_script_file(files) ==
    LET path == <<"migration", "sql">>
    IN  IF \E f \in files : f.path = path
        THEN IoOk((CHOOSE f \in files : f.path = path).content)
        ELSE IoErr("NotFound")

\* MigrationFolder::checksum: the digest of what read_migration_script returns
checksum_of_script_file(files) ==
    LET script == read_script_file(files)
    IN  IF script.ok THEN IoOk(Sha512(script.value)) ELSE script

\* A folder create_migration_folder has just made, and the script and the
\* extension render_migration_script returned.
ScriptInit ==
    /\ input \in [script : ScriptTexts, extension : Extensions]
    /\ dir = {}
    /\ pc = "folder_created"
    /\ result = None
    /\ folder = <<>>
    /\ table = <<>>
    /\ live = EmptyDatabase
    /\ force = FALSE
    /\ diagnostic = None
    /\ cursor = 0
    /\ work = NoWork
    /\ drift = None
    /\ tempdbs = 0
    /\ log = <<>>
    /\ table0 = table
    /\ live0 = live
    /\ database_migration = None
    /\ checks = None
    /\ output = None
    /\ clock = 0
    /\ inserted = <<>>

\* what the operations on the script file never write
outside_script == <<folder, table, live, force, diagnostic, cursor, work, drift,
                    tempdbs, log, table0, live0, input, database_migration, checks,
                    output, clock, inserted>>

\* folder.write_migration_script(&script, extension)
WriteScriptFile ==
    /\ pc = "folder_created"
    /\ dir' = write_migration_script(dir, input.script, input.extension)
    /\ pc' = "written"
    /\ UNCHANGED result
    /\ UNCHANGED outside_script

\* folder.read_migration_script()
ReadScriptFile ==
    /\ pc = "written"
    /\ result' = Some(read_script_file(dir))
    /\ pc' = "script_read"
    /\ UNCHANGED dir
    /\ UNCHANGED outside_script

\* folder.checksum(&mut buf)
ChecksumScriptFile ==
    /\ pc = "written"
    /\ result' = Some(checksum_of_script_file(dir))
    /\ pc' = "script_hashed"
    /\ UNCHANGED dir
    /\ UNCHANGED outside_script

ScriptNext ==
    \/ WriteScriptFile
    \/ ReadScriptFile
    \/ ChecksumScriptFile

SpecScript == ScriptInit /\ [][ScriptNext]_vars

----------------------------------------------------------------------------
(* smart_revert_to: the connector computes the migration from the live     *)
(* schema to the schema the given scripts produce in a temporary database, *)
(* applies it step by step, and marks the given rows as rolled back.       *)

\* longest table, and longest list of scripts, smart_revert_to starts from
SmartMaxApplied == 2
SmartMaxScripts == 2
\* most steps of the computed revert migration
MaxRevertSteps == 2

\* The state before smart_revert_to(filesystem_migrations, to_be_rolled_back):
\* the rows handed over are a slice of the table from some row on.
SmartInit ==
    /\ table \in SeqsUpTo(Rows(RowNames), SmartMaxApplied)
    /\ \E filesystem_migrations \in SeqsUpTo(Scripts, SmartMaxScripts) :
       \E from \in 0..Len(table) :
          work = [replay |-> filesystem_migrations,
                  to_be_rolled_back |-> SliceFrom(table, from),
                  unapplied |-> <<>>]
    /\ live = Replayed(ScriptsOfRows(AppliedOnly(table)))
    /\ pc = "smart_revert_to"
    /\ folder = <<>>
    /\ force = TRUE
    /\ diagnostic = None
    /\ cursor = 0
    /\ drift = None
    /\ tempdbs = 0
    /\ result = None
    /\ log = <<>>
    /\ table0 = table
    /\ live0 = live
    /\ input = None
    /\ database_migration = None
    /\ checks = None
    /\ output = None
    /\ clock = 0
    /\ dir = {}
    /\ inserted = <<>>

\* what smart_revert_to never writes
outside_smart == <<folder, force, diagnostic, work, table0, live0, input,
                   database_migration, checks, output, clock, dir, inserted>>

\* an operation returned an error, which `?` returns to the caller: the
\* TemporaryDatabase goes out of scope undropped
SmartFail ==
    /\ pc' = "failed"
    /\ \E temp_dir \in BOOLEAN : tempdbs' = out_of_scope(tempdbs, temp_dir)
    /\ UNCHANGED <<table, live, cursor, drift, result, log>>

\* self.flavour.create_temporary_database()
CreateTemporaryDatabase ==
    /\ pc = "smart_revert_to"
    /\ UNCHANGED outside_smart
    /\ \/ /\ tempdbs' = tempdbs + 1
          /\ cursor' = 0
          /\ pc' = IF Len(work.replay) > 0 THEN "temporary_raw_cmd" ELSE "infer_revert"
          /\ UNCHANGED <<table, live, drift, result, log>>
       \/ /\ pc' = "failed"
          /\ UNCHANGED <<table, live, cursor, drift, tempdbs, result, log>>

\* temporary_db.conn.raw_cmd(migration) for each of the scripts
TemporaryRawCmd ==
    /\ pc = "temporary_raw_cmd"
    /\ UNCHANGED outside_smart
    /\ \/ /\ IF cursor + 1 = Len(work.replay)
             THEN pc' = "infer_revert" /\ cursor' = 0
             ELSE pc' = pc /\ cursor' = cursor + 1
          /\ UNCHANGED <<table, live, drift, tempdbs, result, log>>
       \/ SmartFail

\* describe_schema, temporary_db.describe, infer, check, the todo!() on
\* unexecutable migrations and the early return on an empty migration
InferRevert ==
    /\ pc = "infer_revert"
    /\ UNCHANGED outside_smart
    /\ \/ \E n \in 0..MaxRevertSteps :
          \E unexecutable \in BOOLEAN :
             /\ n = 0 => ~unexecutable
             /\ drift' = Some([steps |-> n])
             /\ cursor' = 0
             /\ IF unexecutable
                THEN /\ pc' = "panicked"
                     /\ result' = result
                     /\ \E temp_dir \in BOOLEAN : tempdbs' = out_of_scope(tempdbs, temp_dir)
                ELSE IF migration_is_empty([steps |-> n])
                     THEN /\ pc' = "reverted"
                          /\ result' = Some("Ok")
                          /\ \E temp_dir \in BOOLEAN :
                                tempdbs' = out_of_scope(tempdbs, temp_dir)
                     ELSE /\ pc' = "revert_step"
                          /\ result' = result
                          /\ tempdbs' = tempdbs
             /\ UNCHANGED <<table, live, log>>
       \/ SmartFail

\* while applier.apply_step(&migration, step).await? { step += 1 }
RevertStep ==
    /\ pc = "revert_step"
    /\ UNCHANGED outside_smart
    /\ IF has_step(drift[1], cursor)
       THEN \/ /\ live' = [live EXCEPT !.altered = @ + 1]
               /\ log' = Append(log, <<"apply_step", cursor>>)
               /\ cursor' = cursor + 1
               /\ UNCHANGED <<table, pc, drift, tempdbs, result>>
            \/ SmartFail
       ELSE /\ pc' = "mark_rolled_back"
            /\ UNCHANGED <<table, live, cursor, drift, tempdbs, result, log>>

\* the UPDATE that sets rolledBackAt where the checksum is one of the rows'
\* checksums; .expect(..) panics when it fails
MarkRolledBack ==
    /\ pc = "mark_rolled_back"
    /\ UNCHANGED outside_smart
    /\ \/ /\ table' = mark_rolled_back(
                          table,
                          {work.to_be_rolled_back[i].checksum :
                              i \in 1..Len(work.to_be_rolled_back)})
          /\ log' = Append(log, <<"mark_rolled_back">>)
          /\ pc' = "drop_temporary_database"
          /\ UNCHANGED <<live, cursor, drift, tempdbs, result>>
       \/ /\ pc' = "panicked"
          /\ \E temp_dir \in BOOLEAN : tempdbs' = out_of_scope(tempdbs, temp_dir)
          /\ UNCHANGED <<table, live, cursor, drift, result, log>>

\* self.flavour.drop_temporary_database(&temporary_db), then Ok(())
DropTemporaryDatabase ==
    /\ pc = "drop_temporary_database"
    /\ UNCHANGED outside_smart
    /\ \/ /\ tempdbs' = tempdbs - 1
          /\ pc' = "reverted"
          /\ result' = Some("Ok")
          /\ UNCHANGED <<table, live, cursor, drift, log>>
       \/ SmartFail

SmartNext ==
    \/ CreateTemporaryDatabase
    \/ TemporaryRawCmd
    \/ InferRevert
    \/ RevertStep
    \/ MarkRolledBack
    \/ DropTemporaryDatabase

SpecSmart == SmartInit /\ [][SmartNext]_vars

----------------------------------------------------------------------------
(* Two catch_up invocations on the same folder and the same database.  Each *)
(* invocation is the code of catch_up; they interleave at the awaits of     *)
(* their database operations.  work[p] is what invocation p holds locally.  *)

TwoMaxFolder == 2
Invocations == {"first", "second"}

\* the rows an earlier catch_up left for the first k folders
RowsOfFolders(fs, k) ==
    [i \in 1..k |-> NewRow(migration_id(fs[i]), checksum(fs[i]), read_migration_script(fs[i]))]

\* what an invocation holds between two awaits
Local(p, c, unapplied, d, r) ==
    [pc |-> p, cursor |-> c, unapplied |-> unapplied, drift |-> d, result |-> r]

\* The database is behind the folder, and both invocations have been called.
TwoInit ==
    /\ folder \in Folders(TwoMaxFolder)
    /\ \E k \in 0..Len(folder) :
          /\ k < Len(folder)
          /\ table = RowsOfFolders(folder, k)
          /\ live = Replayed(ScriptsOf(SubSeq(folder, 1, k)))
    /\ force \in BOOLEAN
    /\ work = [p \in Invocations |-> Local("catch_up", 0, <<>>, None, None)]
    /\ pc = "two_catch_ups"
    /\ diagnostic = None
    /\ cursor = 0
    /\ drift = None
    /\ tempdbs = 0
    /\ result = None
    /\ log = <<>>
    /\ table0 = table
    /\ live0 = live
    /\ input = None
    /\ database_migration = None
    /\ checks = None
    /\ output = None
    /\ clock = 0
    /\ dir = {}
    /\ inserted = <<>>

\* what neither invocation writes
outside_two == <<folder, force, pc, diagnostic, cursor, drift, result, table0, live0,
                 input, database_migration, checks, output, clock, dir, inserted>>

\* an await of invocation p returned an error, which `?` returns to its caller
TwoFail(p) ==
    /\ work' = [work EXCEPT ![p].pc = "failed"]
    /\ UNCHANGED <<table, live, log>>

\* list_migrations, read_imperative_migrations, diagnose_migrations_history, match
TwoReadImperativeMigrations(p) ==
    /\ work[p].pc = "catch_up"
    /\ UNCHANGED outside_two
    /\ \/ LET d == diagnose_migrations_history(folder, table)
              next == Dispatch(d, force, folder, table)
          IN  /\ work' = [work EXCEPT ![p] =
                              Local(next.pc, 0, next.work.unapplied, None, next.result)]
              /\ UNCHANGED <<table, live, tempdbs, log>>
       \/ TwoFail(p) /\ UNCHANGED tempdbs

\* connector.detect_drift and the arms Some(drift) / None of its match
TwoDetectDrift(p) ==
    /\ work[p].pc = "detect_drift"
    /\ UNCHANGED outside_two
    /\ \/ TwoFail(p) /\ UNCHANGED tempdbs
       \/ /\ TwoFail(p)
          /\ \E temp_dir \in BOOLEAN : tempdbs' = out_of_scope(tempdbs + 1, temp_dir)
       \/ /\ \E temp_dir \in BOOLEAN : tempdbs' = out_of_scope(tempdbs + 1, temp_dir)
          /\ IF Drifted(live, ScriptsOf(folder))
             THEN \E n \in 1..MaxDriftSteps :
                     work' = [work EXCEPT ![p] =
                         IF force
                         THEN Local("apply_step", 0, <<>>, Some([steps |-> n]), None)
                         ELSE Local("done", 0, <<>>, Some([steps |-> n]),
                                    Returned(Some(MsgDrift), FALSE))]
             ELSE work' = [work EXCEPT ![p] =
                              Local("done", 0, <<>>, None, Returned(None, TRUE))]
          /\ UNCHANGED <<table, live, log>>

\* while applier.apply_step(&drift, step).await? { step += 1 }
TwoApplyStep(p) ==
    /\ work[p].pc = "apply_step"
    /\ UNCHANGED <<outside_two, tempdbs, table>>
    /\ IF has_step(work[p].drift[1], work[p].cursor)
       THEN \/ /\ live' = [live EXCEPT !.altered = @ + 1]
               /\ work' = [work EXCEPT ![p].cursor = @ + 1]
               /\ log' = log
            \/ TwoFail(p)
       ELSE /\ work' = [work EXCEPT ![p].pc = "done",
                                    ![p].result = Returned(None, TRUE)]
            /\ UNCHANGED <<live, log>>

\* connector.persist_imperative_migration_to_table(migration_id, checksum, script)
TwoPersistImperativeMigration(p) ==
    /\ work[p].pc = "persist"
    /\ UNCHANGED <<outside_two, tempdbs>>
    /\ LET filesystem_migration == work[p].unapplied[work[p].cursor + 1]
           script == read_migration_script(filesystem_migration)
           cks == Sha512(script)
       IN  \/ /\ table' = persist_imperative_migration_to_table(
                              table, migration_id(filesystem_migration), cks, script)
              /\ work' = [work EXCEPT ![p].pc = "apply"]
              /\ UNCHANGED <<live, log>>
           \/ TwoFail(p)

\* applier.apply_migration_script(&script, &checksum), then the next iteration
\* of the for loop or Ok((None, true))
TwoApplyMigrationScript(p) ==
    /\ work[p].pc = "apply"
    /\ UNCHANGED <<outside_two, tempdbs, table>>
    /\ LET filesystem_migration == work[p].unapplied[work[p].cursor + 1]
           script == read_migration_script(filesystem_migration)
       IN  \/ /\ live' = raw_cmd(live, script, TRUE)
              /\ log' = Append(log, <<"apply", migration_id(filesystem_migration)>>)
              /\ work' = [work EXCEPT ![p] =
                            IF work[p].cursor + 1 = Len(work[p].unapplied)
                            THEN Local("done", work[p].cursor + 1, work[p].unapplied,
                                       None, Returned(None, TRUE))
                            ELSE Local("persist", work[p].cursor + 1, work[p].unapplied,
                                       None, None)]
           \/ /\ live' = raw_cmd(live, script, FALSE)
              /\ log' = Append(log, <<"apply", migration_id(filesystem_migration)>>)
              /\ work' = [work EXCEPT ![p].pc = "failed"]

TwoNext ==
    \E p \in Invocations :
        \/ TwoReadImperativeMigrations(p)
        \/ TwoDetectDrift(p)
        \/ TwoApplyStep(p)
        \/ TwoPersistImperativeMigration(p)
        \/ TwoApplyMigrationScript(p)

SpecTwo == TwoInit /\ [][TwoNext]_vars

----------------------------------------------------------------------------
(* native_type_change_riskyness on the native types that carry parameters: *)
(* Decimal(Option<(p, s)>) and Binary(Option<n>), reached from SmallInt and *)
(* Int.  The parameters are u32; p - s is a subtraction of two u32.         *)

\* largest precision and scale, and largest length of a binary, of the model
MaxPrecision == 11
MaxBinaryLength == 5

\* a u32 is two words of this size
U32Word == 2^16

\* MsSqlType: the variant and what it carries
Plain(variant) == [variant |-> variant, params |-> None]
Decimal(params) == [variant |-> "Decimal", params |-> params]
Binary(param) == [variant |-> "Binary", params |-> param]

Decimals ==
    {Decimal(None)} \cup {Decimal(Some(<<p, s>>)) : p \in 0..MaxPrecision, s \in 0..MaxPrecision}
Binaries == {Binary(None)} \cup {Binary(Some(n)) : n \in 0..MaxBinaryLength}
Integrals == {Plain("SmallInt"), Plain("Int")}

\* the derived PartialEq of MsSqlType: same variant, same parameters
native_type_eq(left, right) ==
    /\ left.variant = right.variant
    /\ left.params = right.params

\* a - b < bound on u32 when the subtraction wraps around: the difference is
\* 2^32 - (b - a) for b > a
wrapping_sub_is_less(a, b, bound) ==
    IF b <= a
    THEN a - b < bound
    ELSE ((b - a) + bound - 1) \div U32Word >= U32Word

Panicked == "attempt to subtract with overflow"

\* match params { Some((p, s)) if p - s < bound => RiskyCast, _ => SafeCast }:
\* with overflow checks the subtraction panics when s > p, without them it wraps
decimal_arm(params, bound, overflow_checks) ==
    IF params = None
    THEN SafeCast
    ELSE LET p == params[1][1]
             s == params[1][2]
         IN  IF s > p /\ overflow_checks
             THEN Panicked
             ELSE IF wrapping_sub_is_less(p, s, bound) THEN RiskyCast ELSE SafeCast

\* match param { Some(n) if n < bound => RiskyCast, None => RiskyCast, _ => SafeCast }
binary_arm(param, bound) ==
    IF param = None
    THEN RiskyCast
    ELSE IF param[1] < bound THEN RiskyCast ELSE SafeCast

\* the arms of native_type_change_riskyness for two native types, in order
native_type_arms(left, right, overflow_checks) ==
    CASE native_type_eq(left, right) -> SafeCast
      [] left.variant = "SmallInt" /\ right.variant = "Int" -> SafeCast
      [] left.variant = "SmallInt" /\ right.variant = "Decimal" ->
            decimal_arm(right.params, 5, overflow_checks)
      [] left.variant = "SmallInt" /\ right.variant = "Binary" ->
            binary_arm(right.params, 2)
      [] left.variant = "Int" /\ right.variant = "Decimal" ->
            decimal_arm(right.params, 10, overflow_checks)
      [] left.variant = "Int" /\ right.variant = "Binary" ->
            binary_arm(right.params, 4)

\* The pairs of native types the model calls the matrix on: from SmallInt and
\* Int to the types with parameters, and every type to itself.
NativeInit ==
    /\ \E left \in Integrals \cup Decimals \cup Binaries :
       \E right \in Integrals \cup Decimals \cup Binaries :
          /\ \/ native_type_eq(left, right)
             \/ left \in Integrals /\ right \in Decimals \cup Binaries
             \/ left = Plain("SmallInt") /\ right = Plain("Int")
          /\ input = [previous |-> left, next |-> right]
    /\ pc = "native_types"
    /\ result = None
    /\ folder = <<>>
    /\ table = <<>>
    /\ live = EmptyDatabase
    /\ force = FALSE
    /\ diagnostic = None
    /\ cursor = 0
    /\ work = NoWork
    /\ drift = None
    /\ tempdbs = 0
    /\ log = <<>>
    /\ table0 = <<>>
    /\ live0 = EmptyDatabase
    /\ database_migration = None
    /\ checks = None
    /\ output = None
    /\ clock = 0
    /\ dir = {}
    /\ inserted = <<>>

\* native_type_change_riskyness called on the pair, in a build with or without
\* overflow checks
NativeTypeChangeRiskyness ==
    /\ pc = "native_types"
    /\ \E overflow_checks \in BOOLEAN :
          LET change == native_type_arms(input.previous, input.next, overflow_checks)
          IN  /\ result' = Some(change)
              /\ pc' = IF change = Panicked THEN "panicked" ELSE "native_classified"
    /\ UNCHANGED <<folder, table, live, force, diagnostic, cursor, work, drift, tempdbs,
                   log, table0, live0, input, database_migration, checks, output,
                   clock, dir, inserted>>

NativeNext == NativeTypeChangeRiskyness

SpecNative == NativeInit /\ [][NativeNext]_vars

----------------------------------------------------------------------------
(* Vocabulary of the claims about the diagnostic, stated without the loop. *)

Min(a, b) == IF a <= b THEN a ELSE b

\* the folder entry and the row at (1-based) position i carry the same checksum
SameChecksum(fs, rows, i) == rows[i].checksum = Sha512(fs[i].script)

\* how many leading folder entries agree, position by position, with rows
MatchedPrefix(fs, rows) ==
    CHOOSE k \in 0..Min(Len(fs), Len(rows)) :
        /\ \A i \in 1..k : SameChecksum(fs, rows, i)
        /\ k = Min(Len(fs), Len(rows)) \/ ~SameChecksum(fs, rows, k + 1)

\* number of table rows up to and including the k-th row that is not rolled back
ConsumedBy(applied, k) ==
    IF k = 0 THEN 0
    ELSE CHOOSE p \in 1..Len(applied) :
            /\ is_applied(applied[p])
            /\ Cardinality({q \in 1..p : is_applied(applied[q])}) = k

Diagnosed == pc = "diagnosed"
Verdict == diagnostic[1]
Kinds == {"UpToDate", "DatabaseIsBehind", "FilesystemIsBehind", "HistoriesDiverge"}

----------------------------------------------------------------------------
(* C1 *)

\* C1 as stated: the diagnostic is one of the four variants, and a table of the
\* folder's length whose checksums equal the folder's position by position
\* yields UpToDate.
C1_AsStated ==
    Diagnosed =>
        /\ Verdict.kind \in Kinds
        /\ (/\ Len(table) = Len(folder)
            /\ \A i \in 1..Len(folder) : SameChecksum(folder, table, i))
           => Verdict = UpToDate

\* C1 amended: the same, for tables none of whose rows is rolled back.
C1_EqualHistoriesUpToDate ==
    Diagnosed =>
        /\ Verdict.kind \in Kinds
        /\ (/\ Len(table) = Len(folder)
            /\ \A i \in 1..Len(folder) : SameChecksum(folder, table, i)
            /\ \A i \in 1..Len(table) : is_applied(table[i]))
           => Verdict = UpToDate

C1_Witness ==
    /\ Diagnosed
    /\ Len(folder) = 2 /\ Len(table) = 2
    /\ folder[1].script # folder[2].script
    /\ \A i \in 1..2 : SameChecksum(folder, table, i) /\ is_applied(table[i])
    /\ Verdict = UpToDate

----------------------------------------------------------------------------
(* C2 *)

\* C2 as stated: when the table is a strict checksum-prefix of the folder the
\* diagnostic is DatabaseIsBehind with unapplied = folder[len(table)..].
C2_AsStated ==
    (/\ Diagnosed
     /\ Len(table) < Len(folder)
     /\ \A i \in 1..Len(table) : SameChecksum(folder, table, i))
    => /\ Verdict.kind = "DatabaseIsBehind"
       /\ Verdict.start = Len(table)
       /\ Verdict.items = SubSeq(folder, Len(table) + 1, Len(folder))

\* C2 amended: when the rows that are not rolled back form a strict
\* checksum-prefix of the folder, the diagnostic is DatabaseIsBehind with
\* unapplied = folder[n..], n the number of rows that are not rolled back.
C2_StrictPrefixDatabaseIsBehind ==
    LET rows == AppliedOnly(table) IN
    (/\ Diagnosed
     /\ Len(rows) < Len(folder)
     /\ \A i \in 1..Len(rows) : SameChecksum(folder, rows, i))
    => /\ Verdict.kind = "DatabaseIsBehind"
       /\ Verdict.start = Len(rows)
       /\ Verdict.items = SubSeq(folder, Len(rows) + 1, Len(folder))

C2_Witness ==
    /\ Diagnosed
    /\ Len(folder) = 3
    /\ Len(table) = 3 /\ Len(AppliedOnly(table)) = 1
    /\ SameChecksum(folder, AppliedOnly(table), 1)
    /\ Verdict.kind = "DatabaseIsBehind" /\ Verdict.start = 1 /\ Len(Verdict.items) = 2

----------------------------------------------------------------------------
(* C3 *)

\* C3 as stated: the diagnostic is UpToDate exactly when the folder entries
\* agree pairwise, in order, with the rows that are not rolled back and none of
\* those rows is left over; rolled-back rows never count, wherever they stand.
C3_UpToDateIffFilteredMatch ==
    LET rows == AppliedOnly(table) IN
    Diagnosed =>
        (Verdict = UpToDate
            <=> (/\ Len(rows) = Len(folder)
                 /\ \A i \in 1..Len(folder) : SameChecksum(folder, rows, i)))

----------------------------------------------------------------------------
(* C4 *)

\* C4: the diagnostic is HistoriesDiverge exactly when at least one folder
\* entry agreed with its applied counterpart and the next folder entry and the
\* next applied row both exist and disagree; the index reported is that of the
\* last agreeing folder entry, and every entry up to it agreed.
C4_HistoriesDivergeIff ==
    LET rows == AppliedOnly(table)
        m == MatchedPrefix(folder, rows)
    IN  Diagnosed =>
        /\ Verdict.kind = "HistoriesDiverge"
              <=> (m >= 1 /\ m < Len(folder) /\ m < Len(rows))
        /\ Verdict.kind = "HistoriesDiverge" =>
              /\ Verdict.start = m - 1
              /\ \A i \in 1..(Verdict.start + 1) : SameChecksum(folder, rows, i)
              /\ ~SameChecksum(folder, rows, Verdict.start + 2)

C4_Witness ==
    /\ Diagnosed
    /\ Verdict.kind = "HistoriesDiverge"
    /\ Verdict.start = 1
    /\ \E i \in 1..Len(table) : ~is_applied(table[i])

----------------------------------------------------------------------------
(* C5 *)

----------------------------------------------------------------------------
(* Vocabulary of the claims about catch_up. *)

Done == pc = "done"
HasDiagnostic == diagnostic # None
LogHas(op) == \E i \in 1..Len(log) : log[i][1] = op
InRevertTo == pc \in {"drop_database", "reinitialize", "replay"}

\* the folder migrations that had no applied counterpart when the command started
UnappliedAtStart ==
    SubSeq(folder, MatchedPrefix(folder, AppliedOnly(table0)) + 1, Len(folder))

----------------------------------------------------------------------------
(* C6 *)

\* C6: a command run with force = false never drops the live database and
\* never enters revert_to, whatever the diagnostic.
C6_NoDropWithoutForce ==
    ~force =>
        /\ ~LogHas("drop_database")
        /\ ~InRevertTo
        /\ pc # "initialize"

C6_Witness ==
    /\ ~force
    /\ Done
    /\ Verdict.kind = "FilesystemIsBehind"
    /\ Len(folder) >= 1
    /\ live = live0

----------------------------------------------------------------------------
(* C7 *)

\* C7: with force = false, when the history is up to date but the live schema
\* has drifted, or the folder is behind, or the histories diverge, the live
\* database and the rows of the table stay as they were, no script and no
\* drift step is applied, no row is inserted, and the command returns
\* (Some(message), false); in the last two situations it returns at once.
C7_NoForceLeavesDatabaseUntouched ==
    (/\ ~force
     /\ HasDiagnostic
     /\ \/ Verdict.kind \in {"FilesystemIsBehind", "HistoriesDiverge"}
        \/ Verdict.kind = "UpToDate" /\ Drifted(live0, ScriptsOf(folder)))
    => /\ live = live0
       /\ table = table0
       /\ log = <<>>
       /\ Verdict.kind # "UpToDate" => Done
       /\ Done => /\ result # None
                  /\ result[1].radical_measure # None
                  /\ result[1].proceed = FALSE

C7_Witness ==
    /\ ~force
    /\ Done
    /\ Verdict.kind = "UpToDate"
    /\ Drifted(live0, ScriptsOf(folder))
    /\ Len(folder) = 2
    /\ result = Returned(Some(MsgDrift), FALSE)

----------------------------------------------------------------------------
(* C8 *)

\* C8: in the DatabaseIsBehind branch the operations issued are, in order,
\* persist(f1), apply(f1), persist(f2), apply(f2), ... over the unapplied folder
\* migrations in folder order, and nothing follows a script that failed: each
\* row is inserted before its script runs, and migration i+1 is neither
\* recorded nor run before migration i has run successfully.
C8_PersistThenApplyInFolderOrder ==
    (HasDiagnostic /\ Verdict.kind = "DatabaseIsBehind") =>
        LET items == UnappliedAtStart IN
        /\ Len(log) <= 2 * Len(items)
        /\ \A j \in 1..Len(log) :
              LET f == items[(j + 1) \div 2] IN
              IF j % 2 = 1
              THEN log[j] = <<"persist", f.id, Sha512(f.script)>>
              ELSE log[j][1] = "apply" /\ log[j][2] = f.script
        /\ \A j \in 1..(Len(log) - 1) : log[j][1] = "apply" => log[j][3] = TRUE
        /\ Len(table) = Len(table0) + (Len(log) + 1) \div 2
        /\ Len(live.ran) = Len(live0.ran) + Len(log) \div 2

C8_Witness ==
    /\ Done
    /\ Verdict.kind = "DatabaseIsBehind"
    /\ Len(log) = 4
    /\ log[1][1] = "persist" /\ log[2][1] = "apply"
    /\ log[3][1] = "persist" /\ log[4][1] = "apply"
    /\ folder[1].script # folder[2].script

----------------------------------------------------------------------------
(* C9 *)

\* C9: when a command with force = false completes from DatabaseIsBehind, the
\* table is the table it started from followed by one row per folder migration
\* that was unapplied, in folder order, each with the folder's id as name and
\* the checksum of the folder's script, and the history diagnostic of the
\* folder against the new table is UpToDate.
C9_BehindCatchesUp ==
    (Done /\ ~force /\ Verdict.kind = "DatabaseIsBehind") =>
        LET new == UnappliedAtStart IN
        /\ Len(table) = Len(table0) + Len(new)
        /\ SubSeq(table, 1, Len(table0)) = table0
        /\ \A i \in 1..Len(new) :
              LET row == table[Len(table0) + i] IN
              /\ row.name = new[i].id
              /\ row.checksum = Sha512(new[i].script)
        /\ diagnose_migrations_history(folder, table) = UpToDate

C9_Witness ==
    /\ Done
    /\ ~force
    /\ Verdict.kind = "DatabaseIsBehind"
    /\ Len(table0) = 2 /\ ~is_applied(table0[2])
    /\ Len(table) = 4
    /\ diagnose_migrations_history(folder, table) = UpToDate

----------------------------------------------------------------------------
(* C10 *)

\* C10: at every point of a command, every script that was run against the
\* live database, to completion or not, has a row in the applied-migrations
\* table, and either the script ran to completion or that row's finished_at is
\* null.
C10_EveryScriptRunHasARow ==
    \A i \in 1..Len(live.ran) :
        \E j \in 1..Len(table) :
            /\ table[j].checksum = Sha512(live.ran[i].script)
            /\ live.ran[i].complete \/ table[j].finished_at = Null

----------------------------------------------------------------------------
(* C11 *)

\* the command ended because the script of the row it had just inserted failed
FailedAfterPersist ==
    /\ pc = "failed"
    /\ Len(log) >= 2
    /\ log[Len(log)][1] = "apply" /\ log[Len(log)][3] = FALSE
    /\ log[Len(log) - 1][1] = "persist"

\* C11: when apply_migration_script failed after its row was inserted, the
\* history diagnostic of the next invocation (the folder against the table as
\* the failed command left it) does not take that row for an applied match: it
\* is DatabaseIsBehind and the folder migration of that row is among the
\* unapplied ones, so its script is run again.
C11_FailedApplyIsRetried ==
    FailedAfterPersist =>
        LET next == diagnose_migrations_history(folder, table)
            id == log[Len(log) - 1][2]
        IN  /\ next.kind = "DatabaseIsBehind"
            /\ \E i \in 1..Len(next.items) : migration_id(next.items[i]) = id

----------------------------------------------------------------------------
(* C12 *)

\* revert_to has returned Ok to catch_up
RevertToReturned ==
    /\ LogHas("drop_database")
    /\ pc \in {"initialize", "persist", "apply", "done"}

\* C12: once revert_to has returned, every row it was handed as to be rolled
\* back is in the table with rolled_back_at set; and as long as revert_to has
\* not replayed all its scripts (it is still running, or it failed), no row has
\* been marked that was not marked when the command started.
C12_RevertToMarksRolledBack ==
    /\ RevertToReturned =>
          \A i \in 1..Len(work.to_be_rolled_back) :
              \E j \in 1..Len(table) :
                  /\ table[j].checksum = work.to_be_rolled_back[i].checksum
                  /\ table[j].rolled_back_at # Null
    /\ (InRevertTo \/ (pc = "failed" /\ LogHas("drop_database") /\ ~LogHas("persist"))) =>
          \A j \in 1..Len(table) :
              table[j].rolled_back_at # Null =>
                  \E i \in 1..Len(table0) : table0[i] = table[j]

----------------------------------------------------------------------------
(* C13 *)

\* C13: with force = false and a HistoriesDiverge diagnostic, catch_up returns
\* (Some(message), false), and the message is the "last migration was edited"
\* one exactly when only the final entry differs: the disagreeing pair is the
\* last folder entry and the last applied row, and the two carry the same name;
\* otherwise it is the generic "histories diverge after <last agreeing
\* folder>" message.
C13_LastMigrationEditedMessage ==
    (Done /\ ~force /\ Verdict.kind = "HistoriesDiverge") =>
        LET rows == AppliedOnly(table0)
            m == MatchedPrefix(folder, rows)
            only_final_differs ==
                /\ m + 1 = Len(folder)
                /\ m + 1 = Len(rows)
                /\ rows[m + 1].name = folder[m + 1].id
        IN  result = Returned(Some(IF only_final_differs
                                   THEN MsgLastEdited
                                   ELSE MsgDiverge(folder[m].id)),
                              FALSE)

----------------------------------------------------------------------------
(* C14 *)

\* C14: when a command with force = true finds the history up to date and the
\* live schema drifted, and catch_up returns successfully, the live schema is
\* the schema the folder's scripts produce when replayed into an empty
\* database: detecting drift again finds none.
C14_ForcedDriftIsRepaired ==
    (/\ Done
     /\ force
     /\ Verdict.kind = "UpToDate"
     /\ Drifted(live0, ScriptsOf(folder)))
    => /\ result = Returned(None, TRUE)
       /\ ~Drifted(live, ScriptsOf(folder))
       /\ Len(log) = drift[1].steps
       /\ \A j \in 1..Len(log) : log[j] = <<"apply_step", j - 1>>

C14_Witness ==
    /\ Done
    /\ force
    /\ Verdict.kind = "UpToDate"
    /\ Drifted(live0, ScriptsOf(folder))
    /\ Len(folder) = 2
    /\ drift # None /\ drift[1].steps = 2
    /\ log = << <<"apply_step", 0>>, <<"apply_step", 1>> >>
    /\ live = Replayed(ScriptsOf(folder))

----------------------------------------------------------------------------
(* C15 *)

\* C15: when a command has returned, with a result or with an error, no
\* temporary database that it created is left undropped.
C15_TemporaryDatabaseDropped ==
    pc \in {"done", "failed"} => tempdbs = 0

----------------------------------------------------------------------------
(* Vocabulary of the claims about schema_push. *)

PushReturned == pc = "returned"
Checked == checks # None
Unexecutable == Len(checks[1].unexecutable_migrations)
Warnings == Len(checks[1].warnings)

\* the positions at which execute is applying, or has applied, the pushed schema
ApplyingThePush ==
    \/ pc \in {"create_migration_folder", "write_migration_script", "push_persist",
               "push_apply", "push_apply_step"}
    \/ LogHas("create_migration_folder")
    \/ input.migrations_folder_path = None /\ log # <<>>

----------------------------------------------------------------------------
(* C16 *)

\* C16: should_apply is false whenever the checker reported at least one
\* unexecutable migration, whatever accept_data_loss is; otherwise it is true
\* exactly when there are no warnings or accept_data_loss is set.  schema_push
\* applies the pushed schema only when should_apply is true.
C16_ShouldApply ==
    Checked =>
        LET applies == should_apply(checks[1], input)
        IN  /\ Unexecutable > 0 => ~applies
            /\ Unexecutable = 0 => (applies <=> (Warnings = 0 \/ input.accept_data_loss))
            /\ ApplyingThePush => applies
            /\ (PushReturned /\ output[1].executed_steps > 0) => applies

C16_Witness ==
    /\ PushReturned
    /\ Checked
    /\ Unexecutable > 0
    /\ input.accept_data_loss
    /\ input.migrations_folder_path = None
    /\ database_migration[1].steps = 2
    /\ ~should_apply(checks[1], input)
    /\ output[1].executed_steps = 0

----------------------------------------------------------------------------
(* C17 *)

\* C17: whenever the checker reported at least one unexecutable migration for
\* the pushed schema, schema_push applies nothing of it, and the output it
\* returns has executed_steps = 0 and a non-empty unexecutable list, with a
\* migrations folder path as well as without.
C17_UnexecutableIsReported ==
    (Checked /\ Unexecutable > 0) =>
        /\ ~ApplyingThePush
        /\ PushReturned =>
              /\ output[1].executed_steps = 0
              /\ output[1].unexecutable # <<>>

----------------------------------------------------------------------------
(* C18 *)

\* C18: when catch_up returns a radical measure, schema_push returns Ok with an
\* output that carries that radical measure and executed_steps = 0; it infers
\* and checks no migration for the pushed schema, creates no migration folder,
\* inserts no row and runs no script.
C18_RadicalMeasureIsASuccess ==
    (result # None /\ result[1].radical_measure # None) =>
        /\ pc \in {"done", "returned"}
        /\ PushReturned => output = Some(NothingPushed(result[1].radical_measure))
        /\ database_migration = None
        /\ checks = None
        /\ log = <<>>
        /\ table = table0
        /\ live = live0
        /\ \A i \in 1..Len(folder) : folder[i].script # Null

C18_Witness ==
    /\ PushReturned
    /\ result = Returned(Some(MsgLastEdited), FALSE)
    /\ output = Some(SchemaPushOutput(0, <<>>, <<>>, Some(MsgLastEdited)))
    /\ Len(folder) = 2
    /\ table = table0

----------------------------------------------------------------------------
(* C19 *)

\* C19: list_migrations lists the folders by increasing time of creation: of
\* any two folders made by create_migration_folder, the one created earlier
\* comes first.
C19_ListedByCreationTime ==
    \A i, j \in 1..Len(folder) :
        TimeLess(folder[i].created, folder[j].created) => i < j

----------------------------------------------------------------------------
(* C20 *)

\* C20: read_imperative_migrations returns the rows of the table in the order
\* in which they were inserted.
C20_ReadInInsertionOrder ==
    pc = "read" => result[1] = inserted

----------------------------------------------------------------------------
(* C21 *)

\* the migration ids of the folders
FolderIds == {migration_id(folder[i]) : i \in 1..Len(folder)}

----------------------------------------------------------------------------
(* Vocabulary of the claims about the differ's hooks. *)

Classified == pc = "classified"
Classification == result[1]
PreviousFamily == input.previous.family
NextFamily == input.next.family
BothNative == input.previous.native_type # None /\ input.next.native_type # None

\* the family-level table as the specification words it
FamilyTable(previous, next) ==
    IF next = "String"
    THEN "SafeCast"
    ELSE IF <<previous, next>> \in
                {<<"String", "Int">>, <<"DateTime", "Float">>, <<"String", "Float">>}
         THEN "NotCastable"
         ELSE "RiskyCast"

----------------------------------------------------------------------------
(* C22 *)

\* C22: for two columns without native type, column_type_change returns no
\* classification when the families are equal, and otherwise SafeCast when the
\* next family is String, NotCastable for String -> Int, DateTime -> Float and
\* String -> Float, and RiskyCast for every other pair of families.
C22_FamilyLevelTable ==
    (Classified /\ input.previous.native_type = None /\ input.next.native_type = None) =>
        IF PreviousFamily = NextFamily
        THEN Classification = None
        ELSE Classification = Some(FamilyTable(PreviousFamily, NextFamily))

C22_Witness ==
    /\ Classified
    /\ input.previous.native_type = None
    /\ input.next.native_type = None
    /\ PreviousFamily = "DateTime"
    /\ NextFamily = "Float"
    /\ Classification = Some("NotCastable")

----------------------------------------------------------------------------
(* C23 *)

\* C23: when both columns carry a native type and the native type changes,
\* column_type_change returns what the native-type matrix says for the pair,
\* within one family as well as across families.
C23_NativeTypeMatrixConsulted ==
    (/\ Classified
     /\ BothNative
     /\ input.previous.native_type # input.next.native_type
     /\ HasArm(input.previous.native_type[1], input.next.native_type[1])) =>
        Classification = Some(native_type_change_riskyness(input))

----------------------------------------------------------------------------
(* C24 *)

\* C24: a column pair whose arity goes from nullable to required is never
\* classified SafeCast.
C24_NullableToRequiredNeverSafe ==
    (/\ Classified
     /\ input.previous.arity = "Nullable"
     /\ input.next.arity = "Required") =>
        Classification # Some("SafeCast")

----------------------------------------------------------------------------
(* C25 *)

\* a column pair whose family changed and whose change cannot be cast
DroppedColumn(columns) ==
    /\ columns.previous.family # columns.next.family
    /\ FamilyTable(columns.previous.family, columns.next.family) = "NotCastable"

\* C25: tables_to_redefine returns tables present in both schemas only, and
\* such a table is in it exactly when one of its column pairs has a changed
\* auto_increment, or every one of its column pairs has a changed family whose
\* change is classified NotCastable.
C25_TablesToRedefine ==
    pc = "redefined" =>
        /\ result[1] \subseteq DOMAIN input
        /\ \A tbl \in DOMAIN input :
              tbl \in result[1] <=>
                 \/ \E c \in 1..Len(input[tbl]) :
                       input[tbl][c].previous.auto_increment
                           # input[tbl][c].next.auto_increment
                 \/ \A c \in 1..Len(input[tbl]) : DroppedColumn(input[tbl][c])

\* A loses both its columns and is redefined; B loses one of two and is not
C25_Witness ==
    /\ pc = "redefined"
    /\ DOMAIN input = {"A", "B"}
    /\ Len(input["A"]) = 2
    /\ \A c \in 1..2 : DroppedColumn(input["A"][c]) /\ ~input["A"][c].next.auto_increment
    /\ Len(input["B"]) = 2
    /\ DroppedColumn(input["B"][1])
    /\ ~DroppedColumn(input["B"][2])
    /\ \A c \in 1..2 : ~input["B"][c].next.auto_increment
    /\ result[1] = {"A"}

----------------------------------------------------------------------------
(* C26 *)

\* C26: whenever a command with force = true returns Ok((None, true)),
\* whatever the diagnostic it started from, the history diagnostic of the
\* folder against the table it leaves is UpToDate.
C26_ForcedCatchUpIsUpToDate ==
    (Done /\ force /\ result = Returned(None, TRUE)) =>
        diagnose_migrations_history(folder, table) = UpToDate

----------------------------------------------------------------------------
(* C27 *)

\* the scripts that were run against the live database, in the order they ran
RanScripts == [i \in 1..Len(live.ran) |-> live.ran[i].script]

\* the live database was dropped by revert_to
Dropped == LogHas("drop_database")

\* C27: in a forced command that started from HistoriesDiverge, once revert_to
\* has dropped the database, the scripts run against it are the folder's
\* scripts in folder order, each at most once and none after a failed one;
\* revert_to runs the ones before the last matched migration, and from the last
\* matched migration on each has its row, named after the folder and carrying
\* the checksum of the script, before the script runs.  When the command
\* returns, every folder script has run to completion exactly once.
C27_DivergedHistoryIsReplayed ==
    (HasDiagnostic /\ Verdict.kind = "HistoriesDiverge" /\ force /\ Dropped) =>
        LET last == Verdict.start IN
        /\ live.extra = FALSE
        /\ live.altered = 0
        /\ Len(live.ran) <= Len(folder)
        /\ RanScripts = SubSeq(ScriptsOf(folder), 1, Len(live.ran))
        /\ \A i \in 1..(Len(live.ran) - 1) : live.ran[i].complete
        /\ \A j \in 1..Len(table) :
              /\ table[j].name = migration_id(folder[last + j])
              /\ table[j].checksum = Sha512(folder[last + j].script)
        /\ Len(live.ran) > last => Len(table) >= Len(live.ran) - last
        /\ Len(table) > 0 => Len(live.ran) >= last + Len(table) - 1
        /\ Done =>
              /\ result = Returned(None, TRUE)
              /\ Len(live.ran) = Len(folder)
              /\ \A i \in 1..Len(live.ran) : live.ran[i].complete
              /\ Len(table) = Len(folder) - last

\* three folders, the third edited after it was applied: one script replayed
\* by revert_to, then the second and the third recorded and applied
C27_Witness ==
    /\ Done
    /\ force
    /\ Verdict = HistoriesDiverge(1)
    /\ Len(folder) = 3
    /\ Len(table0) = 3
    /\ Dropped
    /\ RanScripts = ScriptsOf(folder)
    /\ Len(table) = 2
    /\ table[1].name = 2
    /\ table[2].name = 3

----------------------------------------------------------------------------
(* C28 *)

\* C28: in a forced command that started from FilesystemIsBehind, revert_to is
\* handed every script of the folder and the unpersisted rows.  Until it drops
\* the database nothing is run or written; after the drop the database holds
\* nothing but the folder's scripts, run in folder order, each at most once
\* and none after a failed one, in front of an empty applied-migrations table;
\* the connector is initialized, and the command returns Ok((None, true)),
\* only when every folder script has run to completion.
C28_FolderBehindIsReverted ==
    (HasDiagnostic /\ Verdict.kind = "FilesystemIsBehind" /\ force) =>
        /\ pc \in {"drop_database", "reinitialize", "replay", "initialize", "done",
                   "failed"}
        /\ work.replay = ScriptsOf(folder)
        /\ work.to_be_rolled_back = Verdict.items
        /\ work.unapplied = <<>>
        /\ ~Dropped =>
              /\ pc \in {"drop_database", "failed"}
              /\ live = live0
              /\ table = table0
              /\ log = <<>>
        /\ Dropped =>
              /\ log[1] = <<"drop_database">>
              /\ live.extra = FALSE
              /\ live.altered = 0
              /\ table = <<>>
              /\ Len(live.ran) <= Len(folder)
              /\ RanScripts = SubSeq(ScriptsOf(folder), 1, Len(live.ran))
              /\ \A i \in 1..(Len(live.ran) - 1) : live.ran[i].complete
              /\ (Len(live.ran) > 0 /\ ~live.ran[Len(live.ran)].complete) => pc = "failed"
        /\ pc \in {"initialize", "done"} =>
              /\ Dropped
              /\ Len(live.ran) = Len(folder)
              /\ \A i \in 1..Len(live.ran) : live.ran[i].complete
        /\ Done => result = Returned(None, TRUE)

\* two folders behind a table of three rows: both scripts replayed after the drop
C28_Witness ==
    /\ Done
    /\ force
    /\ Verdict.kind = "FilesystemIsBehind"
    /\ Len(folder) = 2
    /\ Len(table0) = 3
    /\ Len(Verdict.items) > 0
    /\ log = <<<<"drop_database">>, <<"apply", folder[1].script, TRUE>>,
               <<"apply", folder[2].script, TRUE>>>>
    /\ RanScripts = ScriptsOf(folder)
    /\ result = Returned(None, TRUE)

----------------------------------------------------------------------------
(* C29 *)

\* the log entries of a migration recorded and then run to completion
RecordedAndRun(i) ==
    /\ i < Len(log)
    /\ log[i][1] = "persist"
    /\ log[i + 1][1] = "apply"
    /\ log[i + 1][3]

\* C29: every migration the command records is inserted before its script
\* runs, and once the script has run to completion the table holds its row,
\* with the folder's id and the script's checksum, with finished_at set.
C29_FinishedAtIsSet ==
    /\ \A i \in 1..Len(log) :
          (log[i][1] = "apply" /\ ~Dropped) => (i > 1 /\ log[i - 1][1] = "persist")
    /\ \A i \in 1..Len(log) :
          RecordedAndRun(i) =>
              \E j \in 1..Len(table) :
                  /\ table[j].name = log[i][2]
                  /\ table[j].checksum = log[i][3]
                  /\ table[j].finished_at # Null

----------------------------------------------------------------------------
(* C30 *)

\* C30: when the first folder entry and the first applied row that is not
\* rolled back differ by checksum, the diagnostic is FilesystemIsBehind and its
\* unpersisted list is the whole table, rolled-back rows included.
C30_FirstMismatchCarriesWholeTable ==
    (/\ Diagnosed
     /\ Len(folder) >= 1
     /\ Len(AppliedOnly(table)) >= 1
     /\ AppliedOnly(table)[1].checksum # checksum(folder[1])) =>
        /\ Verdict.kind = "FilesystemIsBehind"
        /\ Verdict.items = table

\* a rolled-back row in front of an applied row that is not the folder's first
C30_Witness ==
    /\ Diagnosed
    /\ Len(folder) = 2
    /\ Len(table) = 3
    /\ ~is_applied(table[1])
    /\ is_applied(table[2])
    /\ table[2].checksum # checksum(folder[1])
    /\ table[3].checksum = checksum(folder[2])
    /\ Verdict = FilesystemIsBehind(0, table)

----------------------------------------------------------------------------
(* C31 *)

\* the calls of apply_step that applied a step, in the order they were made
StepsApplied == SelectSeq(log, LAMBDA e : e[1] = "apply_step")

InStepLoop == pc \in {"apply_step", "push_apply_step"}

\* the migration the loop in progress, or the loop that ran, applies
LoopMigration ==
    IF input.migrations_folder_path = None THEN database_migration[1] ELSE drift[1]

\* the loops apply step 0, 1, 2, ... each once, never more than the migration has
C31_StepsInOrder ==
    /\ \A j \in 1..Len(StepsApplied) : StepsApplied[j] = <<"apply_step", j - 1>>
    /\ StepsApplied # <<>> => Len(StepsApplied) <= LoopMigration.steps
    /\ InStepLoop => cursor = Len(StepsApplied)

\* apply_to_dev_database returns the number of steps applied, all of them when
\* should_apply is true and none, without a call, when it is false; the forced
\* drift application returns once every step of the drift is applied
C31_StepsCounted ==
    /\ (PushReturned /\ input.migrations_folder_path = None) =>
          /\ output[1].executed_steps = Len(StepsApplied)
          /\ IF should_apply(checks[1], input)
             THEN Len(StepsApplied) = database_migration[1].steps
             ELSE log = <<>> /\ live = live0
    /\ (pc = "done" /\ StepsApplied # <<>>) =>
          /\ Len(StepsApplied) = drift[1].steps
          /\ result = Returned(None, TRUE)

\* C31: the step-by-step apply loops terminate; they apply the steps 0, 1, 2,
\* ... in increasing order, each exactly once, and no step after an error;
\* apply_to_dev_database returns the number of steps applied, which is 0 with no
\* call of apply_step when should_apply is false.
C31_StepLoopsTerminate ==
    /\ [](C31_StepsInOrder /\ C31_StepsCounted)
    /\ (InStepLoop ~> ~InStepLoop)

\* a push without migrations folder has applied the two steps of its migration
C31_Witness ==
    /\ PushReturned
    /\ input.migrations_folder_path = None
    /\ database_migration[1].steps = 2
    /\ log = << <<"apply_step", 0>>, <<"apply_step", 1>> >>
    /\ output[1].executed_steps = 2

----------------------------------------------------------------------------
(* C32 *)

\* C32: every result catch_up returns is (Some(message), false) or (None, true):
\* it names a radical measure exactly when it tells the caller not to proceed.
C32_RadicalMeasureIffNotProceed ==
    /\ Done => result # None
    /\ result # None =>
          result[1].radical_measure # None <=> ~result[1].proceed

\* the folder is behind the table and force is not set
C32_Witness ==
    /\ Done
    /\ ~force
    /\ Verdict.kind = "FilesystemIsBehind"
    /\ Len(folder) = 1
    /\ result = Returned(Some(MsgFolderBehind), FALSE)

----------------------------------------------------------------------------
(* C33 *)

\* C33: in a push with draft = true and a migrations folder, once the folder
\* of the new migration is created nothing more touches the database: no row
\* is inserted and no script is run after it.  The push returns with the
\* generated script written into that folder, executed_steps = 0, and no row
\* under the new folder's name that the table did not have before.
C33_DraftIsNotApplied ==
    (input # None /\ input.draft /\ input.migrations_folder_path # None) =>
        /\ pc \notin {"push_persist", "push_apply", "push_apply_step"}
        /\ \A i \in 1..Len(log) :
              log[i][1] = "create_migration_folder" => i = Len(log)
        /\ PushReturned => output[1].executed_steps = 0
        /\ (PushReturned /\ LogHas("create_migration_folder")) =>
              /\ folder[Len(folder)].script = database_migration[1].script
              /\ migration_id(folder[Len(folder)]) = log[Len(log)][2]
              /\ \A j \in 1..Len(table) :
                    table[j].name = migration_id(folder[Len(folder)]) =>
                        \E k \in 1..Len(table0) : table0[k] = table[j]

\* a draft saved next to one folder migration that catch_up had to apply first
C33_Witness ==
    /\ PushReturned
    /\ input.draft
    /\ input.migrations_folder_path # None
    /\ Len(folder) = 2
    /\ Len(table0) = 0
    /\ Len(table) = 1
    /\ log[Len(log)] = <<"create_migration_folder", 2>>
    /\ folder[2].script = database_migration[1].script
    /\ output = Some(NothingPushed(None))

----------------------------------------------------------------------------
(* C34 *)

\* C34: whatever the extension, the script written into a folder with
\* write_migration_script is the script read_migration_script returns for that
\* folder, and the one checksum hashes.
C34_ExtensionHonoured ==
    /\ pc = "script_read" => result = Some(IoOk(input.script))
    /\ pc = "script_hashed" => result = Some(IoOk(Sha512(input.script)))

----------------------------------------------------------------------------
(* C35 *)

\* C35: when smart_revert_to has returned Ok, every row of the table whose
\* checksum is the checksum of a row of to_be_rolled_back is marked rolled
\* back, an empty revert migration included; and rows are marked only once
\* every step of the revert migration is applied.
C35_SmartRevertMarksRows ==
    /\ pc = "reverted" =>
          \A i \in 1..Len(work.to_be_rolled_back) :
              \A j \in 1..Len(table) :
                  table[j].checksum = work.to_be_rolled_back[i].checksum =>
                      table[j].rolled_back_at # Null
    /\ table # table0 =>
          /\ LogHas("mark_rolled_back")
          /\ Len(log) = drift[1].steps + 1
          /\ \A k \in 1..drift[1].steps : log[k] = <<"apply_step", k - 1>>

----------------------------------------------------------------------------
(* C36 *)

\* the invocations that ran the script of folder migration id against the
\* live database, one entry per execution
Executions(id) == SelectSeq(log, LAMBDA e : e = <<"apply", id>>)

\* the rows of the table under the name of folder migration id that are not
\* rolled back
AppliedRows(id) ==
    {j \in 1..Len(table) : table[j].name = id /\ is_applied(table[j])}

\* C36: when two catch_up invocations interleave on a database that is
\* behind the folder, no folder migration's script is executed twice against
\* the live database and no folder migration has two rows that are not rolled
\* back.
C36_NoDoubleApplication ==
    \A i \in 1..Len(folder) :
        /\ Len(Executions(migration_id(folder[i]))) <= 1
        /\ Cardinality(AppliedRows(migration_id(folder[i]))) <= 1

----------------------------------------------------------------------------
(* C37 *)

\* the matrix has been called on the pair of native types of input
NativeCalled == pc \in {"native_classified", "panicked"}

\* C37: SmallInt -> Decimal(p, s) is RiskyCast exactly when p - s < 5 and
\* SafeCast otherwise; Int -> Binary(n) is RiskyCast exactly when n < 4 or n
\* is not given and SafeCast otherwise; a native type changed to itself is
\* SafeCast.
C37_ParameterArms ==
    NativeCalled =>
        LET left == input.previous
            right == input.next
        IN  /\ native_type_eq(left, right) => result = Some(SafeCast)
            /\ (left.variant = "SmallInt" /\ right.variant = "Decimal"
                    /\ right.params # None) =>
                  result = Some(IF right.params[1][1] - right.params[1][2] < 5
                                THEN RiskyCast ELSE SafeCast)
            /\ (left.variant = "Int" /\ right.variant = "Binary") =>
                  result = Some(IF right.params = None \/ right.params[1] < 4
                                THEN RiskyCast ELSE SafeCast)

====
